---- MODULE Spec2Model ----
(***************************************************************************)
(* Multi-part download engine of cliant.                                   *)
(*                                                                         *)
(* The module models                                                       *)
(*   - the coordinator  application/services/downloader_service.rs         *)
(*     (download_single, StartMultiPart::start, do_multi_part, do_single), *)
(*   - the part worker  domain/services/download.rs (fetch_part_parallel), *)
(*   - the progress journal  domain/services/download.rs (ProgressFile),   *)
(*   - the ranged transport  infra/network/http_adapter.rs                 *)
(*     (get_bytes_range, process_chunk),                                   *)
(*   - the tracker  application/services/progress_service.rs,              *)
(*   - the planner  domain/services/split_parts.rs (split_parts).          *)
(*                                                                         *)
(* Bytes are integers: byte k of the source resource is the integer k, so  *)
(* that a byte that lands at a wrong offset is always visible.             *)
(* Each of the two head probes of a download (download_single's and        *)
(* start's) finds a Content-Length or not and a name or not; a size that   *)
(* is found is FileSize.                                                   *)
(* Filesystem calls are taken not to fail, with the one exception of       *)
(* remove_file on a path that does not exist; worker tasks do not panic.   *)
(***************************************************************************)
EXTENDS Integers, Sequences, FiniteSets, TLC

(***************************************************************************)
(* Bounds                                                                  *)
(***************************************************************************)
\* size of the resource reported by the head probe (Content-Length)
FileSize == 4
\* http_config.multipart_part_size, scaled down
PartSize == 2
\* number of bytes in one chunk yielded by resp.chunk()
ChunkLen == 1
\* number of times the periodic save may fire before it is aborted
MaxSaves == 1
\* number of intervals in a journal file found at start
MaxLoaded == 2
\* number of bytes in the body of a non-2xx response (an error page may
\* be longer than the range that was asked for)
ErrBodyLen == 3
\* total_size of the journals of the save/load round trip
RoundTripSize == 2
\* number of bytes in one MiB (1024 * 1024 in split_parts), scaled down
MbBytes == 2
\* number of bits of a usize, scaled down
UsizeBits == 4
\* largest max_concurrent_part handed to split_parts
MaxConcurrentPart == 3
\* the cap on the part workers in flight a configuration asks for
MaxParts == 1
\* width of the retry policy's u32 budget, scaled down like UsizeBits
U32Bits == 2
\* longest run of transient failures a request meets
MaxFailures == 3
\* longest last path segment of a URL, in characters
MaxSegmentLen == 3
\* longest filename parameter of a Content-Disposition header
MaxHeaderLen == 2
\* most URLs handed to the download manager
MaxUrls == 3
\* capacity of the channel between process_chunk and the stream
BufferSize == 1
\* most chunks in a response body
MaxBodyChunks == 3
\* capacity of receive_data's channel (256 in the source)
ChannelCapacity == 2
\* chunks that make up the leading bytes get_or_parse reads (2048 bytes in the source)
SniffChunks == 2
\* MAX_HANDLE_CACHE of DiskFileSystem (64 in the source)
MaxHandleCache == 1
\* number of bytes of a file that exists before the first call
InitLen == 1
\* number of calls made on one DiskFileSystem
MaxCalls == 3
\* number of bytes in the buffer of one write
BufLen == 1
\* size of the resource the sync downloader fetches
SyncSize == 4
\* largest max_retry_no handed to retry_request
MaxRetryNo == 4

(***************************************************************************)
(* Byte values                                                             *)
(***************************************************************************)
\* byte k of the source resource
SourceByte(k) == k
\* a byte of the body of a non-2xx response (an error page)
ErrorBodyByte == -1
\* a byte of a file region that was allocated but never written
HoleByte == -2

Min(a, b) == IF a < b THEN a ELSE b

(***************************************************************************)
(* Tasks: a part worker is named by its part_id (0, 1, ...)                *)
(***************************************************************************)
\* the task that runs download_single, start, do_multi_part and do_single
Coordinator == -1
\* the periodic save task spawned by do_multi_part
SaveTask == -2

VARIABLES
    cpc,                \* position of the coordinator
    status,             \* outcome of download_single
    journal_file,       \* the file <destination>.progress
    resuming,           \* whether download_single found a journal file
    load_result,        \* what the last load_progress returned
    progress_file,      \* the in-memory ProgressFile shared by the workers
    completed_chunks,   \* do_multi_part's clone of the loaded intervals
    ranges,             \* do_multi_part's planned ranges
    ranges_to_download, \* the ranges that survive the resume filter
    requested,          \* ranges for which get_bytes_range was called
    wpc,                \* position of each part worker
    resp,               \* what the transport answered to each worker
    bytes_written,      \* fetch_part_parallel's bytes_written
    write_pos,          \* fetch_part_parallel's write_pos
    chunk_var,          \* the chunk a worker is holding
    part_flushed,       \* bytes each worker has written and flushed
    writer_lock,        \* set of workers holding the destination mutex
    disk,               \* content of the destination file
    tracker,            \* CliProgressTracker
    part_progress,      \* DefaultProgressTracker's map, fed by the same calls
    awaited,            \* number of worker handles the coordinator joined
    save_task,          \* state of the periodic save task
    saves,              \* number of periodic saves performed
    info,               \* download_single's download_info: which headers the head probe found
    file_info,          \* StartMultiPart::start's file_info, its own head probe
    single,             \* do_single and write_stream: request, stream position, chunk
    journal_lock,       \* set of tasks holding the ProgressFile mutex
    tracker_lock,       \* tasks holding the tracker's part_progress / completed_parts locks
    plan_input,         \* arguments of a call of split_parts
    plan_output,        \* what that call returned
    retry,              \* one request under the retry middleware: budget, attempts, result
    naming,             \* one call of get_or_parse: header, URL segment, name found
    bulk,               \* the download manager: its URLs, tasks built, threads
    stream,             \* one create_byte_stream: upstream, producer task, channel, consumer
    local,              \* one save_to_local handle(): origin, channel, writer, file, result
    chunking,           \* one comparison of the two fixed-size chunkings: inputs, results
    diskfs,             \* DiskFileSystem: files, handle cache, the last call
    part,               \* one DownloadPart of the sync downloader and its part file
    task,               \* one DownloadTask of the sync downloader: plan, part files, destination
    multi,              \* one MultiParts::execute: probe, destination file, streams
    syncRetry           \* one retry_request of the sync downloader: budget, calls of f made

vars == <<cpc, status, journal_file, resuming, load_result, progress_file, completed_chunks, ranges,
          ranges_to_download, requested, wpc, resp, bytes_written, write_pos,
          chunk_var, part_flushed, writer_lock, disk, tracker, part_progress, awaited,
          save_task, saves, info, file_info, single, journal_lock,
          tracker_lock, plan_input, plan_output, retry, naming, bulk, stream, local,
          chunking, diskfs, part, task, multi, syncRetry>>

plannerVars == <<plan_input, plan_output>>
coreServiceVars == <<retry, naming, bulk, stream, local>>
moreVars == <<chunking, diskfs, part, task, multi, syncRetry>>
serviceVars == <<coreServiceVars, moreVars>>
fallbackVars == <<info, file_info, single>>
lockVars == <<journal_lock, tracker_lock>>

Parts == 0 .. (Len(ranges_to_download) - 1)

\* the range of the worker spawned with part_id p
RangeOf(p) == ranges_to_download[p + 1]

(***************************************************************************)
(* Progress journal: ProgressFile                                          *)
(***************************************************************************)
\* ProgressFile::new
NewProgressFile(total_size) ==
    [total_size |-> total_size, completed_chunks |-> <<>>]

\* ProgressFile::add_chunk
AddChunk(pf, chunk_range) ==
    [pf EXCEPT !.completed_chunks = Append(@, chunk_range)]

\* The serialized text is a sequence of tokens: a punctuation mark, a
\* blank, or a decimal number
Punct(c) == [t |-> c, v |-> 0]
Num(n) == [t |-> "num", v |-> n]
Space == Punct(" ")

\* serde_json::to_string of the completed_chunks vector
RECURSIVE ChunkTokens(_)
ChunkTokens(chunks) ==
    IF chunks = <<>> THEN <<>>
    ELSE <<Punct("("), Num(chunks[1][1]), Num(chunks[1][2]), Punct(")")>>
         \o ChunkTokens(Tail(chunks))

\* serde_json::to_string(self): one object
Serialize(pf) ==
    <<Punct("{"), Num(pf.total_size), Punct("[")>>
    \o ChunkTokens(pf.completed_chunks)
    \o <<Punct("]"), Punct("}")>>

\* AsyncWrite on a handle positioned at 0 and opened without truncation:
\* the new bytes replace a prefix, whatever lay beyond them stays
WriteAtStart(old, new) ==
    new \o SubSeq(old, Len(new) + 1, Len(old))

\* save_progress: seek(0), write_all_buf, flush
SaveProgress(pf, writer) == WriteAtStart(writer, Serialize(pf))

IsSpace(tok) == tok = Space

\* str::trim
RECURSIVE TrimStart(_)
TrimStart(toks) ==
    IF toks # <<>> /\ IsSpace(Head(toks)) THEN TrimStart(Tail(toks)) ELSE toks

RECURSIVE TrimEnd(_)
TrimEnd(toks) ==
    IF toks # <<>> /\ IsSpace(toks[Len(toks)])
    THEN TrimEnd(SubSeq(toks, 1, Len(toks) - 1))
    ELSE toks

Trim(toks) == TrimEnd(TrimStart(toks))

IsNumber(tok) == tok.t = "num"

ParseError == [ok |-> FALSE, chunks |-> <<>>, rest |-> <<>>]

\* the elements of the completed_chunks array, up to its closing bracket:
\* returns the chunks read and the tokens left after "]"
RECURSIVE ParseChunks(_, _)
ParseChunks(toks, acc) ==
    IF toks = <<>> THEN ParseError
    ELSE IF Head(toks) = Punct("]")
         THEN [ok |-> TRUE, chunks |-> acc, rest |-> Tail(toks)]
    ELSE IF /\ Len(toks) >= 4
            /\ toks[1] = Punct("(")
            /\ IsNumber(toks[2])
            /\ IsNumber(toks[3])
            /\ toks[4] = Punct(")")
         THEN ParseChunks(SubSeq(toks, 5, Len(toks)),
                          Append(acc, <<toks[2].v, toks[3].v>>))
         ELSE ParseError

\* serde_json::from_str: one object and nothing after it
FromStr(toks) ==
    IF /\ Len(toks) >= 3
       /\ toks[1] = Punct("{")
       /\ IsNumber(toks[2])
       /\ toks[3] = Punct("[")
    THEN LET r == ParseChunks(SubSeq(toks, 4, Len(toks)), <<>>)
         IN  IF r.ok /\ r.rest = <<Punct("}")>>
             THEN [ok |-> TRUE,
                   value |-> [total_size |-> toks[2].v, completed_chunks |-> r.chunks]]
             ELSE [ok |-> FALSE, value |-> NewProgressFile(0)]
    ELSE [ok |-> FALSE, value |-> NewProgressFile(0)]

\* load_progress: seek(0), read_to_string, from_str(buf.trim())
LoadProgress(reader) == FromStr(Trim(reader))

(***************************************************************************)
(* Destination file                                                        *)
(***************************************************************************)
\* OpenOptions of the destination: .append(true)
OpenAppend == TRUE

\* a write of data through a handle whose cursor is at offset pos; a handle
\* opened for append writes at the end of the file wherever its cursor is
FileWrite(file, pos, data) ==
    IF OpenAppend
    THEN file \o data
    ELSE LET len == IF Len(file) > pos + Len(data) THEN Len(file) ELSE pos + Len(data)
         IN  [i \in 1 .. len |->
                 IF i > pos /\ i <= pos + Len(data) THEN data[i - pos]
                 ELSE IF i <= Len(file) THEN file[i]
                 ELSE HoleByte]

(***************************************************************************)
(* Coordinator: planning and the resume filter                             *)
(***************************************************************************)
\* do_multi_part: "compute ranges"
RECURSIVE ComputeRanges(_, _, _)
ComputeRanges(start, file_size, part_size) ==
    IF start < file_size
    THEN LET end == Min(start + part_size - 1, file_size - 1)
         IN  <<<<start, end>>>> \o ComputeRanges(end + 1, file_size, part_size)
    ELSE <<>>

\* is_completed as it would be if any overlap with a loaded interval counted
IsCompletedOnOverlap(range, chunks) ==
    \E i \in 1 .. Len(chunks) :
        range[1] <= chunks[i][2] /\ chunks[i][1] <= range[2]

\* do_multi_part: is_completed of one range against the loaded intervals
IsCompleted(range, chunks) ==
    \E i \in 1 .. Len(chunks) :
        range[1] >= chunks[i][1] /\ range[2] <= chunks[i][2]

\* do_multi_part: ranges_to_download
RangesToDownload(rs, chunks) ==
    SelectSeq(rs, LAMBDA r : ~IsCompleted(r, chunks))

(***************************************************************************)
(* Planner: split_parts                                                    *)
(***************************************************************************)
RECURSIVE Pow2(_)
Pow2(n) == IF n = 0 THEN 1 ELSE 2 * Pow2(n - 1)

\* usize::MAX + 1
UsizeModulus == Pow2(UsizeBits)

\* a call that did not return: the multiplication overflowed in a build
\* with overflow checks
SplitPanic == [panic |-> TRUE, parts |-> <<>>]

SplitReturn(parts) == [panic |-> FALSE, parts |-> parts]

\* the loop "for i in 0..num_parts" of split_parts
RECURSIVE SplitLoop(_, _, _, _, _, _)
SplitLoop(i, num_parts, chunk_bytes, remaining_chunk, current_start, parts) ==
    IF i >= num_parts THEN parts
    ELSE LET base_end == current_start + chunk_bytes - 1
             current_end == IF i < remaining_chunk THEN base_end + 1 ELSE base_end
         IN  SplitLoop(i + 1, num_parts, chunk_bytes, remaining_chunk,
                       current_end + 1,
                       Append(parts, <<current_start, current_end>>))

\* split_parts; min_split_part_mb * 1024 * 1024 is a usize product: it
\* panics when overflow checks are compiled in and wraps when they are not
SplitParts(file_size_bytes, max_concurrent_part, min_split_part_mb, overflow_checks) ==
    IF file_size_bytes = 0 THEN SplitReturn(<<>>)
    ELSE IF min_split_part_mb * MbBytes >= UsizeModulus /\ overflow_checks
    THEN SplitPanic
    ELSE LET min_split_part_bytes == (min_split_part_mb * MbBytes) % UsizeModulus
             whole == <<<<0, file_size_bytes - 1>>>>
         IN  IF file_size_bytes <= min_split_part_bytes THEN SplitReturn(whole)
             ELSE IF min_split_part_bytes = 0 THEN SplitReturn(whole)
             ELSE IF max_concurrent_part = 0 THEN SplitReturn(whole)
             ELSE LET num_part_ideal == file_size_bytes \div min_split_part_bytes
                      num_parts == Min(IF num_part_ideal > 0 THEN num_part_ideal ELSE 1,
                                       max_concurrent_part)
                      chunk_bytes == file_size_bytes \div num_parts
                      remaining_chunk == file_size_bytes % num_parts
                  IN  SplitReturn(SplitLoop(0, num_parts, chunk_bytes,
                                            remaining_chunk, 0, <<>>))

(***************************************************************************)
(* Transport: what a ranged request can be answered with                   *)
(*   "ok"       a 2xx response carrying the bytes of the range             *)
(*   "status"   a non-2xx final response (4xx, or 5xx after the retries),  *)
(*              which send() returns as Ok(resp) like any other            *)
(*   "send_err" send() returned Err (connection error after the retries)   *)
(***************************************************************************)
ResponseKinds == {"ok", "status", "send_err"}

\* the body that process_chunk forwards for a response of the given kind
Body(kind, range) ==
    IF kind = "ok" THEN [i \in 1 .. (range[2] - range[1] + 1) |-> SourceByte(range[1] + i - 1)]
    ELSE IF kind = "status" THEN [i \in 1 .. ErrBodyLen |-> ErrorBodyByte]
    ELSE <<>>

(***************************************************************************)
(* DefaultProgressTracker: a map from part_id to bytes                     *)
(***************************************************************************)
\* HashMap::insert
MapInsert(map, key, value) ==
    [k \in (DOMAIN map) \cup {key} |-> IF k = key THEN value ELSE map[k]]

\* progress.values().sum()
RECURSIVE ValuesSum(_, _)
ValuesSum(map, keys) ==
    IF keys = {} THEN 0
    ELSE LET k == CHOOSE x \in keys : TRUE
         IN  map[k] + ValuesSum(map, keys \ {k})

\* DefaultProgressTracker::total_progress().downloaded_bytes
DownloadedBytes == ValuesSum(part_progress, DOMAIN part_progress)

(***************************************************************************)
(* Initial state: the filesystem as download_single finds it               *)
(***************************************************************************)
Intervals == {iv \in (0 .. FileSize - 1) \X (0 .. FileSize - 1) : iv[1] <= iv[2]}

RECURSIVE SeqsUpTo(_, _)
SeqsUpTo(S, n) ==
    IF n = 0 THEN {<<>>}
    ELSE LET shorter == SeqsUpTo(S, n - 1)
         IN  shorter \cup {Append(q, x) : q \in shorter, x \in S}

\* the order in which a journal lists its intervals enters no decision of a
\* download (is_completed asks for any interval), so one order stands for
\* all: ascending by start, then by end
Ascending(cs) ==
    \A i \in 1 .. (Len(cs) - 1) :
        \/ cs[i][1] < cs[i + 1][1]
        \/ cs[i][1] = cs[i + 1][1] /\ cs[i][2] < cs[i + 1][2]

\* journals a previous run may have left
PriorJournals ==
    {[total_size |-> FileSize, completed_chunks |-> cs] :
        cs \in {c \in SeqsUpTo(Intervals, MaxLoaded) \ {<<>>} : Ascending(c)}}

AbsentFile == [exists |-> FALSE, content |-> <<>>]

\* the destination a previous run left: the journaled intervals hold the
\* source's bytes, the rest of the file was allocated and not written
PriorDisk(chunks) ==
    [i \in 1 .. FileSize |->
        IF \E c \in 1 .. Len(chunks) : chunks[c][1] <= i - 1 /\ i - 1 <= chunks[c][2]
        THEN SourceByte(i - 1)
        ELSE HoleByte]

NoParts == [p \in {} |-> 0]

\* a head probe that found neither Content-Length nor Content-Disposition
NoInfo == [size |-> FALSE, name |-> FALSE]

\* what the head probe can find: Content-Length or not, a name or not
Infos == [size : BOOLEAN, name : BOOLEAN]

\* do_single before its request
NoSingle ==
    [resp |-> "none", range |-> <<0, 0>>, fetches |-> 0, bytes_written |-> 0,
     chunk |-> <<>>, flushed |-> <<>>]

NoLocks == [part_progress |-> {}, completed_parts |-> {}]

NoPlanInput ==
    [file_size_bytes |-> 0, max_concurrent_part |-> 0, min_split_part_mb |-> 0,
     overflow_checks |-> FALSE]

Idle ==
    /\ status = "running"
    /\ resuming = FALSE
    /\ load_result = [ok |-> FALSE, value |-> NewProgressFile(0)]
    /\ completed_chunks = <<>>
    /\ ranges = <<>>
    /\ ranges_to_download = <<>>
    /\ requested = {}
    /\ wpc = NoParts
    /\ resp = NoParts
    /\ bytes_written = NoParts
    /\ write_pos = NoParts
    /\ chunk_var = NoParts
    /\ part_flushed = NoParts
    /\ writer_lock = {}
    /\ tracker = [position |-> 0, completed_parts |-> 0, total_parts |-> 0]
    /\ part_progress = NoParts
    /\ awaited = 0
    /\ save_task = "none"
    /\ saves = 0
    /\ file_info = NoInfo
    /\ single = NoSingle
    /\ journal_lock = {}
    /\ tracker_lock = NoLocks
    /\ plan_output = SplitReturn(<<>>)

NoRetry ==
    [max_no_retries |-> 0, max_n_retries |-> 0, script |-> <<>>,
     n_past_retries |-> 0, attempts |-> 0, result |-> "none"]

None == [some |-> FALSE, name |-> <<>>]
Some(name) == [some |-> TRUE, name |-> name]

NoNaming ==
    [header |-> [kind |-> "absent", value |-> <<>>], segment |-> <<>>,
     sniff |-> "none", result |-> None, filename |-> <<>>]

NoBulk == [urls |-> <<>>, next |-> 1, tasks |-> <<>>, thread |-> <<>>]

NoLocal ==
    [response |-> "ok", chunks |-> 0, ending |-> "eof", probe |-> "ok",
     disk_fails |-> FALSE, arrived |-> 0, item |-> 0, channel |-> <<>>,
     stream_result |-> "none", bytes |-> 0, written |-> <<>>, write_failed |-> FALSE,
     prior |-> <<>>, file |-> <<>>, closed |-> FALSE, finished |-> FALSE,
     result |-> "none"]

NoStream ==
    [response |-> "ok", body |-> 0, ending |-> "eof", producer |-> "none",
     item |-> "none", last |-> FALSE, channel |-> <<>>, consumer |-> "none",
     received |-> 0]

CoreServicesIdle ==
    /\ retry = NoRetry
    /\ naming = NoNaming
    /\ bulk = NoBulk
    /\ stream = NoStream
    /\ local = NoLocal

NoChunking ==
    [file_size |-> 0, part_size |-> 1, overflow_checks |-> FALSE,
     inline |-> [outcome |-> "none", ranges |-> <<>>],
     generated |-> [outcome |-> "none", ranges |-> <<>>]]

\* the paths the filesystem adapter is called with
Paths == {"part", "dest"}
NoHandle == [open |-> FALSE, append |-> FALSE, cursor |-> 0]
NoCall == [op |-> "none", path |-> "part", pos |-> 0, buf |-> <<>>, before |-> <<>>,
           result |-> "none"]
\* DiskFileSystem::new: an empty handle cache
NoDiskfs ==
    [files |-> [p \in Paths |-> AbsentFile],
     handle_cache |-> [p \in Paths |-> NoHandle],
     call |-> NoCall, calls |-> 0]

\* PartStatus: Starting, Started, Completed, Broken(bytes)
PartStatus(kind, bytes) == [kind |-> kind, bytes |-> bytes]
\* DownloadPart::new of no part: status Starting, nothing on disk
NoPart ==
    [bytes_start |-> 0, bytes_end |-> 0, file |-> AbsentFile,
     status |-> PartStatus("Starting", 0), entry |-> PartStatus("Starting", 0),
     found |-> AbsentFile, body |-> <<>>, pc |-> "new", result |-> "none"]

\* a DownloadTask that was not built
NoTask ==
    [content_length |-> 0, max_concurrent_part |-> 1, min_split_part_mb |-> 0,
     parts |-> <<>>, files |-> <<>>, results |-> <<>>, joined |-> <<>>,
     dest |-> AbsentFile, found |-> AbsentFile, opened |-> FALSE, added |-> 0,
     removed |-> FALSE, pc |-> "start", result |-> "none"]

\* MultiParts::new: state Initializing, nothing probed
NoMulti ==
    [size_known |-> FALSE, max_no_frames |-> 1, min_frame_size_mb |-> 1,
     file |-> AbsentFile, found |-> AbsentFile, file_info_size |-> 0,
     state |-> "Initializing", streams |-> <<>>, written |-> 0,
     pc |-> "init", result |-> "none"]

\* no retry_request under way
NoSyncRetry ==
    [max_retry_no |-> 0, current_retry |-> 1, calls |-> <<>>, pc |-> "loop",
     result |-> "none"]

MoreIdle ==
    /\ chunking = NoChunking
    /\ diskfs = NoDiskfs
    /\ part = NoPart
    /\ task = NoTask
    /\ multi = NoMulti
    /\ syncRetry = NoSyncRetry

ServicesIdle ==
    /\ CoreServicesIdle
    /\ MoreIdle

Init ==
    /\ cpc = "prepare"
    /\ progress_file = NewProgressFile(0)
    /\ info \in Infos
    /\ plan_input = NoPlanInput
    /\ \/ /\ journal_file = AbsentFile
          /\ disk = <<>>
       \/ \E j \in PriorJournals :
          /\ journal_file = [exists |-> TRUE, content |-> Serialize(j)]
          /\ disk = PriorDisk(j.completed_chunks)
    /\ Idle
    /\ ServicesIdle

(***************************************************************************)
(* Coordinator                                                             *)
(***************************************************************************)
workerVars == <<wpc, resp, bytes_written, write_pos, chunk_var, part_flushed>>

\* the state of one download, but for the coordinator's position
downloadVars == <<status, journal_file, resuming, load_result, progress_file,
                  completed_chunks, ranges, ranges_to_download, requested,
                  workerVars, writer_lock, disk, tracker, part_progress, awaited,
                  save_task, saves, fallbackVars, lockVars>>

\* download_single: load the journal if its file exists, else start a new
\* one; open the destination; start the download only if the head probe
\* found both a size and a name, and answer Success otherwise
Prepare ==
    /\ cpc = "prepare"
    /\ resuming' = journal_file.exists
    /\ LET go == info.size /\ info.name
           next_cpc == IF go THEN "start" ELSE "done"
           next_status == IF go THEN status ELSE "Success"
       IN  IF journal_file.exists
           THEN LET r == LoadProgress(journal_file.content)
                IN  /\ load_result' = r
                    /\ IF r.ok
                       THEN /\ progress_file' = r.value
                            /\ cpc' = next_cpc
                            /\ status' = next_status
                       ELSE /\ progress_file' = progress_file
                            /\ cpc' = "done"
                            /\ status' = "Err"
           ELSE /\ progress_file' =
                      NewProgressFile(IF info.size THEN FileSize ELSE 0)
                /\ cpc' = next_cpc
                /\ status' = next_status
                /\ UNCHANGED load_result
    /\ UNCHANGED <<journal_file, completed_chunks, ranges, ranges_to_download,
                   requested, workerVars, writer_lock, disk, tracker, part_progress, awaited,
                   save_task, saves>>
    /\ UNCHANGED <<plannerVars, serviceVars, fallbackVars, lockVars>>

\* StartMultiPart::start: its own head probe, a second request whose answer
\* need not repeat the first; do_multi_part if it found a size and a name,
\* do_single otherwise
StartMultiPart ==
    /\ cpc = "start"
    /\ \E fi \in Infos :
        /\ file_info' = fi
        /\ cpc' = IF fi.size /\ fi.name THEN "plan" ELSE "single"
    /\ UNCHANGED <<status, journal_file, resuming, load_result, progress_file,
                   completed_chunks, ranges, ranges_to_download, requested,
                   workerVars, writer_lock, disk, tracker, part_progress, awaited, save_task,
                   saves, info, single, lockVars, plannerVars, serviceVars>>

\* do_multi_part: compute the ranges, drop the completed ones, create the
\* tracker, spawn one task per remaining range
SpawnParts ==
    /\ cpc = "plan"
    /\ LET rs == ComputeRanges(0, FileSize, PartSize)
           todo == RangesToDownload(rs, progress_file.completed_chunks)
           ids == 0 .. (Len(todo) - 1)
       IN  /\ ranges' = rs
           /\ completed_chunks' = progress_file.completed_chunks
           /\ ranges_to_download' = todo
           /\ tracker' = [position |-> 0, completed_parts |-> 0,
                          total_parts |-> Len(todo)]
           /\ part_progress' = NoParts
           /\ wpc' = [p \in ids |-> "start"]
           /\ resp' = [p \in ids |-> "none"]
           /\ bytes_written' = [p \in ids |-> 0]
           /\ write_pos' = [p \in ids |-> todo[p + 1][1]]
           /\ chunk_var' = [p \in ids |-> <<>>]
           /\ part_flushed' = [p \in ids |-> <<>>]
    /\ cpc' = "await"
    /\ UNCHANGED <<status, journal_file, resuming, load_result, progress_file,
                   requested, writer_lock, disk, awaited, save_task, saves>>
    /\ UNCHANGED <<plannerVars, serviceVars, fallbackVars, lockVars>>

\* do_multi_part: "await all", one handle after the other; an Err of a part
\* is logged and nothing else
AwaitHandle ==
    /\ cpc = "await"
    /\ awaited < Len(ranges_to_download)
    /\ wpc[awaited] \in {"ok", "err"}
    /\ awaited' = awaited + 1
    /\ UNCHANGED <<cpc, status, journal_file, resuming, load_result,
                   progress_file, completed_chunks, ranges, ranges_to_download,
                   requested, workerVars, writer_lock, disk, tracker, part_progress,
                   save_task, saves>>
    /\ UNCHANGED <<plannerVars, serviceVars, fallbackVars, lockVars>>

\* do_multi_part: the periodic save task is spawned once the loop over the
\* handles has ended
SpawnSaveTask ==
    /\ cpc = "await"
    /\ awaited = Len(ranges_to_download)
    /\ save_task' = "sleeping"
    /\ cpc' = "finalize"
    /\ UNCHANGED <<status, journal_file, resuming, load_result, progress_file,
                   completed_chunks, ranges, ranges_to_download, requested,
                   workerVars, writer_lock, disk, tracker, part_progress, awaited, saves>>
    /\ UNCHANGED <<plannerVars, serviceVars, fallbackVars, lockVars>>

\* the save task's loop body, once its 5 s sleep has elapsed: lock the
\* journal
SaveLock ==
    /\ save_task = "sleeping"
    /\ saves < MaxSaves
    /\ journal_lock = {}
    /\ journal_lock' = {SaveTask}
    /\ save_task' = "saving"
    /\ UNCHANGED <<cpc, status, journal_file, resuming, load_result,
                   progress_file, completed_chunks, ranges, ranges_to_download,
                   requested, workerVars, writer_lock, disk, tracker, part_progress, awaited,
                   saves, tracker_lock, plannerVars, serviceVars, fallbackVars>>

\* the save task, holding the journal: open the journal file (write, create,
\* no truncate), save_progress; the guard is dropped at the end of the body
PeriodicSave ==
    /\ save_task = "saving"
    /\ journal_file' = [exists |-> TRUE,
                        content |-> SaveProgress(progress_file, journal_file.content)]
    /\ saves' = saves + 1
    /\ journal_lock' = journal_lock \ {SaveTask}
    /\ save_task' = "sleeping"
    /\ UNCHANGED <<cpc, status, resuming, load_result, progress_file,
                   completed_chunks, ranges, ranges_to_download, requested,
                   workerVars, writer_lock, disk, tracker, part_progress, awaited,
                   tracker_lock, plannerVars, serviceVars, fallbackVars>>

\* do_multi_part: tracker.finish(); CliProgressTracker::total_progress
\* holds the read locks of part_progress and of completed_parts
TrackerFinish ==
    /\ cpc = "finalize"
    /\ tracker_lock = NoLocks
    /\ tracker_lock' = [part_progress |-> {Coordinator},
                        completed_parts |-> {Coordinator}]
    /\ cpc' = "finishing"
    /\ UNCHANGED <<status, journal_file, resuming, load_result, progress_file,
                   completed_chunks, ranges, ranges_to_download, requested,
                   workerVars, writer_lock, disk, tracker, part_progress, awaited, save_task,
                   saves, journal_lock, plannerVars, serviceVars, fallbackVars>>

\* do_multi_part: finish() returns, its guards dropped;
\* save_progress_handle.abort() drops the save task with what it holds
Finalize ==
    /\ cpc = "finishing"
    /\ tracker_lock' = NoLocks
    /\ journal_lock' = journal_lock \ {SaveTask}
    /\ save_task' = "aborted"
    /\ cpc' = "remove"
    /\ UNCHANGED <<status, journal_file, resuming, load_result, progress_file,
                   completed_chunks, ranges, ranges_to_download, requested,
                   workerVars, writer_lock, disk, tracker, part_progress, awaited, saves,
                   plannerVars, serviceVars, fallbackVars>>

\* do_multi_part: remove_file(progress_file_path)?, then download_single's
\* DownloadResponse; remove_file of a missing file is an Err, which
\* download_single returns
RemoveJournal ==
    /\ cpc = "remove"
    /\ IF journal_file.exists
       THEN /\ journal_file' = AbsentFile
            /\ status' = "Success"
       ELSE /\ journal_file' = journal_file
            /\ status' = "Err"
    /\ cpc' = "done"
    /\ UNCHANGED <<resuming, load_result, progress_file, completed_chunks,
                   ranges, ranges_to_download, requested, workerVars,
                   writer_lock, disk, tracker, part_progress, awaited, save_task, saves>>
    /\ UNCHANGED <<plannerVars, serviceVars, fallbackVars, lockVars>>

(***************************************************************************)
(* Cancellation                                                            *)
(***************************************************************************)
\* the positions at which the coordinator is inside a download
RunningAt ==
    {"prepare", "start", "plan", "await", "finalize", "finishing", "remove",
     "single", "single_next", "single_lock", "single_write", "single_update",
     "single_updating"}

\* SIGINT during a download: the handler prints a line and calls exit; the
\* process ends where it stands, with every task and every lock it had
Cancel ==
    /\ cpc \in RunningAt
    /\ cpc' = "exited"
    /\ status' = "Cancelled"
    /\ wpc' = [p \in DOMAIN wpc |->
                  IF wpc[p] \in {"ok", "err"} THEN wpc[p] ELSE "killed"]
    /\ save_task' = IF save_task \in {"sleeping", "saving"} THEN "killed"
                    ELSE save_task
    /\ writer_lock' = {}
    /\ journal_lock' = {}
    /\ tracker_lock' = NoLocks
    /\ UNCHANGED <<journal_file, resuming, load_result, progress_file,
                   completed_chunks, ranges, ranges_to_download, requested,
                   resp, bytes_written, write_pos, chunk_var, part_flushed,
                   disk, tracker, part_progress, awaited, saves, info,
                   file_info, single, plannerVars, serviceVars>>

(***************************************************************************)
(* Single stream: do_single and write_stream, run by the coordinator       *)
(***************************************************************************)
singleFrame == <<status, journal_file, resuming, load_result, progress_file,
                 completed_chunks, ranges, ranges_to_download, workerVars,
                 awaited, save_task, saves, info, file_info, journal_lock,
                 plannerVars, serviceVars>>

\* do_single: a tracker of its own, the current length of the destination
\* (read under the writer lock, which the statement takes and drops), then
\* get_bytes_range from that length if the size is known and the file
\* is partly there, get_bytes otherwise
SingleRequest ==
    /\ cpc = "single"
    /\ LET current_file_size == Len(disk)
           start_offset ==
               IF file_info.size /\ current_file_size > 0
                                /\ current_file_size < FileSize
               THEN current_file_size ELSE 0
           end_offset == IF file_info.size THEN FileSize - 1 ELSE 0
       IN  \E kind \in ResponseKinds :
           IF start_offset > 0
           THEN /\ single' = [single EXCEPT !.resp = kind,
                                            !.range = <<start_offset, end_offset>>]
                /\ requested' = requested \cup {<<start_offset, end_offset>>}
           ELSE /\ single' = [single EXCEPT !.resp = kind,
                                            !.range = <<0, FileSize - 1>>,
                                            !.fetches = @ + 1]
                /\ requested' = requested
    /\ tracker' = [position |-> 0, completed_parts |-> 0, total_parts |-> 0]
    /\ part_progress' = NoParts
    /\ cpc' = "single_next"
    /\ UNCHANGED <<singleFrame, writer_lock, disk, tracker_lock>>

\* write_stream: stream.next() yields Some(Ok(chunk)); bytes_written += len
SingleNext ==
    /\ cpc = "single_next"
    /\ LET body == Body(single.resp, single.range)
           from == single.bytes_written
           to == Min(from + ChunkLen, Len(body))
       IN  /\ from < Len(body)
           /\ single' = [single EXCEPT !.chunk = SubSeq(body, from + 1, to),
                                       !.bytes_written = to]
    /\ cpc' = "single_lock"
    /\ UNCHANGED <<singleFrame, requested, writer_lock, disk, tracker, part_progress,
                   tracker_lock>>

\* write_stream: stream.next() yields Some(Err(_)); chunk_res? returns it,
\* do_single and start return it, download_single returns Err
SingleError ==
    /\ cpc = "single_next"
    /\ \/ single.resp = "send_err"
       \/ single.bytes_written < Len(Body(single.resp, single.range))
    /\ status' = "Err"
    /\ cpc' = "done"
    /\ UNCHANGED <<journal_file, resuming, load_result, progress_file,
                   completed_chunks, ranges, ranges_to_download, workerVars,
                   awaited, save_task, saves, info, file_info, journal_lock,
                   plannerVars, serviceVars, single, requested, writer_lock, disk, tracker, part_progress,
                   tracker_lock>>

\* write_stream: stream.next() yields None; handle.await?; Ok(()) up to
\* download_single, which answers Success
SingleEnd ==
    /\ cpc = "single_next"
    /\ single.resp # "send_err"
    /\ single.bytes_written = Len(Body(single.resp, single.range))
    /\ status' = "Success"
    /\ cpc' = "done"
    /\ UNCHANGED <<journal_file, resuming, load_result, progress_file,
                   completed_chunks, ranges, ranges_to_download, workerVars,
                   awaited, save_task, saves, info, file_info, journal_lock,
                   plannerVars, serviceVars, single, requested, writer_lock, disk, tracker, part_progress,
                   tracker_lock>>

\* write_stream: download_file_arc.lock().await
SingleLock ==
    /\ cpc = "single_lock"
    /\ writer_lock = {}
    /\ writer_lock' = {Coordinator}
    /\ cpc' = "single_write"
    /\ UNCHANGED <<singleFrame, single, requested, disk, tracker, part_progress, tracker_lock>>

\* write_stream: write_all(chunk), flush, and the guard is dropped; there
\* is no seek, the handle's cursor is where the last write left it
SingleWrite ==
    /\ cpc = "single_write"
    /\ writer_lock = {Coordinator}
    /\ disk' = FileWrite(disk, Len(single.flushed), single.chunk)
    /\ single' = [single EXCEPT !.flushed = @ \o single.chunk]
    /\ writer_lock' = {}
    /\ cpc' = "single_update"
    /\ UNCHANGED <<singleFrame, requested, tracker, part_progress, tracker_lock>>

\* write_stream: tracker.update(part_id, bytes_written) takes the write lock
\* of part_progress
SingleTrackerLock ==
    /\ cpc = "single_update"
    /\ tracker_lock.part_progress = {}
    /\ tracker_lock' = [tracker_lock EXCEPT !.part_progress = {Coordinator}]
    /\ cpc' = "single_updating"
    /\ UNCHANGED <<singleFrame, single, requested, writer_lock, disk, tracker, part_progress>>

\* CliProgressTracker::update: progress.inc(bytes_written); the guard is
\* dropped
SingleUpdate ==
    /\ cpc = "single_updating"
    /\ tracker' = [tracker EXCEPT !.position = @ + single.bytes_written]
    /\ part_progress' = MapInsert(part_progress, 0, single.bytes_written)
    /\ tracker_lock' = [tracker_lock EXCEPT !.part_progress = {}]
    /\ cpc' = "single_next"
    /\ UNCHANGED <<singleFrame, single, requested, writer_lock, disk>>

(***************************************************************************)
(* Part worker: fetch_part_parallel                                        *)
(***************************************************************************)
coordVars == <<cpc, status, journal_file, resuming, load_result,
               completed_chunks, ranges, ranges_to_download, awaited,
               save_task, saves>>

\* get_bytes_range: the request is issued; what the server will answer is
\* fixed here and seen by the worker chunk by chunk
GetBytesRange ==
    \E p \in Parts :
    /\ wpc[p] = "start"
    /\ \E kind \in ResponseKinds : resp' = [resp EXCEPT ![p] = kind]
    /\ requested' = requested \cup {RangeOf(p)}
    /\ wpc' = [wpc EXCEPT ![p] = "next"]
    /\ UNCHANGED <<coordVars, progress_file, bytes_written, write_pos, chunk_var,
                   part_flushed, writer_lock, disk, tracker, part_progress>>
    /\ UNCHANGED <<plannerVars, serviceVars, fallbackVars, lockVars>>

\* stream.next() yields Some(Ok(chunk)); bytes_written += chunk_len
NextChunk ==
    \E p \in Parts :
    /\ wpc[p] = "next"
    /\ LET body == Body(resp[p], RangeOf(p))
           from == bytes_written[p]
           to == Min(from + ChunkLen, Len(body))
       IN  /\ from < Len(body)
           /\ chunk_var' = [chunk_var EXCEPT ![p] = SubSeq(body, from + 1, to)]
           /\ bytes_written' = [bytes_written EXCEPT ![p] = to]
    /\ wpc' = [wpc EXCEPT ![p] = "lock"]
    /\ UNCHANGED <<coordVars, progress_file, requested, resp, write_pos,
                   part_flushed, writer_lock, disk, tracker, part_progress>>
    /\ UNCHANGED <<plannerVars, serviceVars, fallbackVars, lockVars>>

\* a coordinator that would cancel the peers of a failed worker: every worker
\* still in flight is dropped with what it holds
NextErrorAbortsPeers ==
    \E p \in Parts :
    /\ wpc[p] = "next"
    /\ \/ resp[p] = "send_err"
       \/ bytes_written[p] < Len(Body(resp[p], RangeOf(p)))
    /\ wpc' = [q \in Parts |-> IF wpc[q] \in {"ok", "err"} THEN wpc[q] ELSE "err"]
    /\ writer_lock' = {}
    /\ journal_lock' = {}
    /\ tracker_lock' = NoLocks
    /\ UNCHANGED <<coordVars, progress_file, requested, resp, bytes_written,
                   write_pos, chunk_var, part_flushed, disk, tracker, part_progress,
                   plannerVars, serviceVars, fallbackVars>>

\* stream.next() yields Some(Err(_)): send() failed, or the body broke off
\* before its end; chunk_res? returns the error
NextError ==
    \E p \in Parts :
    /\ wpc[p] = "next"
    /\ \/ resp[p] = "send_err"
       \/ bytes_written[p] < Len(Body(resp[p], RangeOf(p)))
    /\ wpc' = [wpc EXCEPT ![p] = "err"]
    /\ UNCHANGED <<coordVars, progress_file, requested, resp, bytes_written,
                   write_pos, chunk_var, part_flushed, writer_lock, disk, tracker, part_progress>>
    /\ UNCHANGED <<plannerVars, serviceVars, fallbackVars, lockVars>>

\* stream.next() yields None: the body was forwarded to its end
NextEnd ==
    \E p \in Parts :
    /\ wpc[p] = "next"
    /\ resp[p] # "send_err"
    /\ bytes_written[p] = Len(Body(resp[p], RangeOf(p)))
    /\ wpc' = [wpc EXCEPT ![p] = "join"]
    /\ UNCHANGED <<coordVars, progress_file, requested, resp, bytes_written,
                   write_pos, chunk_var, part_flushed, writer_lock, disk, tracker, part_progress>>
    /\ UNCHANGED <<plannerVars, serviceVars, fallbackVars, lockVars>>

\* download_file_arc.lock().await
LockWriter ==
    \E p \in Parts :
    /\ wpc[p] = "lock"
    /\ writer_lock = {}
    /\ writer_lock' = {p}
    /\ wpc' = [wpc EXCEPT ![p] = "write"]
    /\ UNCHANGED <<coordVars, progress_file, requested, resp, bytes_written,
                   write_pos, chunk_var, part_flushed, disk, tracker, part_progress>>
    /\ UNCHANGED <<plannerVars, serviceVars, fallbackVars, lockVars>>

\* a worker whose guard would live to the end of the loop body instead of
\* the end of the inner block
WriteChunkKeepsLock ==
    \E p \in Parts :
    /\ wpc[p] = "write"
    /\ writer_lock = {p}
    /\ disk' = FileWrite(disk, write_pos[p], chunk_var[p])
    /\ part_flushed' = [part_flushed EXCEPT ![p] = @ \o chunk_var[p]]
    /\ write_pos' = [write_pos EXCEPT ![p] = @ + Len(chunk_var[p])]
    /\ wpc' = [wpc EXCEPT ![p] = "update"]
    /\ UNCHANGED <<coordVars, progress_file, requested, resp, bytes_written,
                   chunk_var, tracker, part_progress, writer_lock, plannerVars, serviceVars, fallbackVars,
                   lockVars>>

\* seek(write_pos), write_all(chunk), flush, and the guard is dropped;
\* write_pos += chunk_len
WriteChunk ==
    \E p \in Parts :
    /\ wpc[p] = "write"
    /\ writer_lock = {p}
    /\ disk' = FileWrite(disk, write_pos[p], chunk_var[p])
    /\ part_flushed' = [part_flushed EXCEPT ![p] = @ \o chunk_var[p]]
    /\ write_pos' = [write_pos EXCEPT ![p] = @ + Len(chunk_var[p])]
    /\ writer_lock' = {}
    /\ wpc' = [wpc EXCEPT ![p] = "update"]
    /\ UNCHANGED <<coordVars, progress_file, requested, resp, bytes_written,
                   chunk_var, tracker, part_progress>>
    /\ UNCHANGED <<plannerVars, serviceVars, fallbackVars, lockVars>>

\* tracker.update(part_id, bytes_written): CliProgressTracker::update takes
\* the write lock of part_progress
TrackerLock ==
    \E p \in Parts :
    /\ wpc[p] = "update"
    /\ tracker_lock.part_progress = {}
    /\ tracker_lock' = [tracker_lock EXCEPT !.part_progress = {p}]
    /\ wpc' = [wpc EXCEPT ![p] = "updating"]
    /\ UNCHANGED <<coordVars, progress_file, requested, resp, bytes_written,
                   write_pos, chunk_var, part_flushed, writer_lock, disk,
                   tracker, part_progress, journal_lock, plannerVars, serviceVars, fallbackVars>>

\* CliProgressTracker::update advances the bar by its argument; the guard
\* is dropped
TrackerUpdate ==
    \E p \in Parts :
    /\ wpc[p] = "updating"
    /\ tracker' = [tracker EXCEPT !.position = @ + bytes_written[p]]
    /\ part_progress' = MapInsert(part_progress, p, bytes_written[p])
    /\ tracker_lock' = [tracker_lock EXCEPT !.part_progress = @ \ {p}]
    /\ wpc' = [wpc EXCEPT ![p] = "next"]
    /\ UNCHANGED <<coordVars, progress_file, requested, resp, bytes_written,
                   write_pos, chunk_var, part_flushed, writer_lock, disk,
                   journal_lock, plannerVars, serviceVars, fallbackVars>>

\* handle.await?: the producer task has ended; it returns (), its errors
\* travel in the stream
JoinProducer ==
    \E p \in Parts :
    /\ wpc[p] = "join"
    /\ wpc' = [wpc EXCEPT ![p] = "journal"]
    /\ UNCHANGED <<coordVars, progress_file, requested, resp, bytes_written,
                   write_pos, chunk_var, part_flushed, writer_lock, disk, tracker, part_progress>>
    /\ UNCHANGED <<plannerVars, serviceVars, fallbackVars, lockVars>>

\* progress_file.lock().await
JournalLock ==
    \E p \in Parts :
    /\ wpc[p] = "journal"
    /\ journal_lock = {}
    /\ journal_lock' = {p}
    /\ wpc' = [wpc EXCEPT ![p] = "journaling"]
    /\ UNCHANGED <<coordVars, progress_file, requested, resp, bytes_written,
                   write_pos, chunk_var, part_flushed, writer_lock, disk,
                   tracker, part_progress, tracker_lock, plannerVars, serviceVars, fallbackVars>>

\* a worker that would bind the journal guard to a local and keep it over
\* complete_part
JournalPartKeepsLock ==
    \E p \in Parts :
    /\ wpc[p] = "journaling"
    /\ progress_file' = AddChunk(progress_file, RangeOf(p))
    /\ wpc' = [wpc EXCEPT ![p] = "complete"]
    /\ UNCHANGED <<coordVars, requested, resp, bytes_written, write_pos,
                   chunk_var, part_flushed, writer_lock, disk, tracker, part_progress,
                   journal_lock, tracker_lock, plannerVars, serviceVars, fallbackVars>>

\* add_chunk((first, last)); the guard is dropped at the end of the
\* statement
JournalPart ==
    \E p \in Parts :
    /\ wpc[p] = "journaling"
    /\ progress_file' = AddChunk(progress_file, RangeOf(p))
    /\ journal_lock' = journal_lock \ {p}
    /\ wpc' = [wpc EXCEPT ![p] = "complete"]
    /\ UNCHANGED <<coordVars, requested, resp, bytes_written, write_pos,
                   chunk_var, part_flushed, writer_lock, disk, tracker, part_progress,
                   tracker_lock, plannerVars, serviceVars, fallbackVars>>

\* tracker.complete_part(part_id, part_size): CliProgressTracker::
\* complete_part takes the write lock of completed_parts
CompleteLock ==
    \E p \in Parts :
    /\ wpc[p] = "complete"
    /\ tracker_lock.completed_parts = {}
    /\ tracker_lock' = [tracker_lock EXCEPT !.completed_parts = {p}]
    /\ wpc' = [wpc EXCEPT ![p] = "completing"]
    /\ UNCHANGED <<coordVars, progress_file, requested, resp, bytes_written,
                   write_pos, chunk_var, part_flushed, writer_lock, disk,
                   tracker, part_progress, journal_lock, plannerVars, serviceVars, fallbackVars>>

\* *completed += 1; the guard is dropped; Ok(())
CompletePart ==
    \E p \in Parts :
    /\ wpc[p] = "completing"
    /\ tracker' = [tracker EXCEPT !.completed_parts = @ + 1]
    /\ part_progress' =
           MapInsert(part_progress, p, RangeOf(p)[2] - RangeOf(p)[1] + 1)
    /\ tracker_lock' = [tracker_lock EXCEPT !.completed_parts = @ \ {p}]
    /\ wpc' = [wpc EXCEPT ![p] = "ok"]
    /\ UNCHANGED <<coordVars, progress_file, requested, resp, bytes_written,
                   write_pos, chunk_var, part_flushed, writer_lock, disk,
                   journal_lock, plannerVars, serviceVars, fallbackVars>>

Next ==
    \/ Prepare
    \/ StartMultiPart
    \/ SpawnParts
    \/ AwaitHandle
    \/ SpawnSaveTask
    \/ SaveLock
    \/ PeriodicSave
    \/ TrackerFinish
    \/ Finalize
    \/ RemoveJournal
    \/ Cancel
    \/ SingleRequest
    \/ SingleNext
    \/ SingleError
    \/ SingleEnd
    \/ SingleLock
    \/ SingleWrite
    \/ SingleTrackerLock
    \/ SingleUpdate
    \/ GetBytesRange
    \/ NextChunk
    \/ NextError
    \/ NextEnd
    \/ LockWriter
    \/ WriteChunk
    \/ TrackerLock
    \/ TrackerUpdate
    \/ JoinProducer
    \/ JournalLock
    \/ JournalPart
    \/ CompleteLock
    \/ CompletePart

Spec == Init /\ [][Next]_vars

(***************************************************************************)
(* Journal round trip: progress_file_test's sequence on one handle that    *)
(* was opened with truncate(false): save_progress, then load_progress      *)
(***************************************************************************)
RoundTripIntervals ==
    {iv \in (0 .. RoundTripSize - 1) \X (0 .. RoundTripSize - 1) : iv[1] <= iv[2]}

RoundTripJournals ==
    {[total_size |-> RoundTripSize, completed_chunks |-> cs] :
        cs \in SeqsUpTo(RoundTripIntervals, MaxLoaded)}

\* what the handle's file may hold when it is opened: nothing, an earlier
\* save, or an earlier save followed by a blank
RoundTripContents ==
    {<<>>} \cup {Serialize(j) : j \in RoundTripJournals}
           \cup {Serialize(j) \o <<Space>> : j \in RoundTripJournals}

InitRoundTrip ==
    /\ cpc = "rt_save"
    /\ info = NoInfo
    /\ plan_input = NoPlanInput
    /\ progress_file \in RoundTripJournals
    /\ \E c \in RoundTripContents : journal_file = [exists |-> TRUE, content |-> c]
    /\ disk = <<>>
    /\ Idle
    /\ ServicesIdle

\* progress.save_progress(&mut handle)
RoundTripSave ==
    /\ cpc = "rt_save"
    /\ journal_file' = [journal_file EXCEPT
                           !.content = SaveProgress(progress_file, @)]
    /\ cpc' = "rt_load"
    /\ UNCHANGED <<status, resuming, load_result, progress_file, completed_chunks,
                   ranges, ranges_to_download, requested, workerVars,
                   writer_lock, disk, tracker, part_progress, awaited, save_task, saves>>
    /\ UNCHANGED <<plannerVars, serviceVars, fallbackVars, lockVars>>

\* progress.load_progress(&mut handle)
RoundTripLoad ==
    /\ cpc = "rt_load"
    /\ load_result' = LoadProgress(journal_file.content)
    /\ cpc' = "rt_done"
    /\ UNCHANGED <<status, journal_file, resuming, progress_file,
                   completed_chunks, ranges, ranges_to_download, requested,
                   workerVars, writer_lock, disk, tracker, part_progress, awaited, save_task,
                   saves>>
    /\ UNCHANGED <<plannerVars, serviceVars, fallbackVars, lockVars>>

NextRoundTrip == RoundTripSave \/ RoundTripLoad

SpecRoundTrip == InitRoundTrip /\ [][NextRoundTrip]_vars

(***************************************************************************)
(* Planner calls: split_parts applied to every input within the bounds,   *)
(* in a build with overflow checks and in a build without                  *)
(***************************************************************************)
PlanInputs ==
    [file_size_bytes : 0 .. (UsizeModulus - 1),
     max_concurrent_part : 0 .. MaxConcurrentPart,
     min_split_part_mb : 0 .. (UsizeModulus - 1),
     overflow_checks : BOOLEAN]

InitPlanner ==
    /\ cpc = "split_call"
    /\ progress_file = NewProgressFile(0)
    /\ journal_file = AbsentFile
    /\ disk = <<>>
    /\ info = NoInfo
    /\ plan_input \in PlanInputs
    /\ Idle
    /\ ServicesIdle

\* split_parts(file_size_bytes, max_concurrent_part, min_split_part_mb)
SplitPartsCall ==
    /\ cpc = "split_call"
    /\ plan_output' = SplitParts(plan_input.file_size_bytes,
                                 plan_input.max_concurrent_part,
                                 plan_input.min_split_part_mb,
                                 plan_input.overflow_checks)
    /\ cpc' = "split_done"
    /\ UNCHANGED <<status, journal_file, resuming, load_result, progress_file,
                   completed_chunks, ranges, ranges_to_download, requested,
                   workerVars, writer_lock, disk, tracker, part_progress, awaited, save_task,
                   saves, fallbackVars, lockVars, plan_input, serviceVars>>

NextPlanner == SplitPartsCall

SpecPlanner == InitPlanner /\ [][NextPlanner]_vars

(***************************************************************************)
(* Retry budget: HttpAdapter::new hands max_no_retries to the backoff      *)
(* policy as a u32 and wraps the client in RetryTransientMiddleware, which *)
(* re-issues a request while its result is transient and the policy still  *)
(* grants a retry.  One request is followed against an origin that fails   *)
(* transiently Len(script) times and then answers 2xx.                     *)
(***************************************************************************)
U32Modulus == Pow2(U32Bits)

\* `*retry_config.max_no_retries() as u32`
AsU32(n) == n % U32Modulus

TransientKinds == {"connect", "timeout", "status_5xx"}

\* ExponentialBackoff::builder()...build_with_max_retries(max_no_retries as u32)
BuildWithMaxRetries(max_no_retries) == AsU32(max_no_retries)

RetryInputs ==
    {[max_no_retries |-> m, max_n_retries |-> BuildWithMaxRetries(m), script |-> f,
      n_past_retries |-> 0, attempts |-> 0, result |-> "none"] :
        m \in 0 .. (U32Modulus + 1), f \in SeqsUpTo(TransientKinds, MaxFailures)}

InitRetry ==
    /\ cpc = "send"
    /\ progress_file = NewProgressFile(0)
    /\ journal_file = AbsentFile
    /\ disk = <<>>
    /\ info = NoInfo
    /\ plan_input = NoPlanInput
    /\ retry \in RetryInputs
    /\ naming = NoNaming
    /\ bulk = NoBulk
    /\ stream = NoStream
    /\ local = NoLocal
    /\ Idle
    /\ MoreIdle

\* what a request leaves alone
retryFrame == <<downloadVars, plannerVars, naming, bulk, stream, local, moreVars>>

\* the attempt fails transiently and the policy grants a retry
RetryAfter ==
    /\ cpc = "send"
    /\ retry.attempts < Len(retry.script)
    /\ retry.n_past_retries < retry.max_n_retries
    /\ retry' = [retry EXCEPT !.attempts = @ + 1, !.n_past_retries = @ + 1]
    /\ UNCHANGED <<cpc, retryFrame>>

\* the attempt fails transiently and the policy answers DoNotRetry: the
\* failure is what send() returns
DoNotRetry ==
    /\ cpc = "send"
    /\ retry.attempts < Len(retry.script)
    /\ retry.n_past_retries >= retry.max_n_retries
    /\ retry' = [retry EXCEPT !.attempts = @ + 1,
                              !.result = retry.script[retry.attempts + 1]]
    /\ cpc' = "sent"
    /\ UNCHANGED retryFrame

\* the attempt is answered 2xx
SendSucceeds ==
    /\ cpc = "send"
    /\ retry.attempts = Len(retry.script)
    /\ retry' = [retry EXCEPT !.attempts = @ + 1, !.result = "ok"]
    /\ cpc' = "sent"
    /\ UNCHANGED retryFrame

NextRetry == RetryAfter \/ DoNotRetry \/ SendSucceeds

SpecRetry == InitRetry /\ [][NextRetry]_vars

(***************************************************************************)
(* Name resolution: get_info's Content-Disposition name, then              *)
(* DownloadName::get_or_parse, then download_single's fallback.  A name is *)
(* a sequence of characters; "%2F" stands for the three characters of that *)
(* escape, "zip" for a sniffed extension, "r1" and "r2" for the digits of  *)
(* two random numbers.                                                     *)
(***************************************************************************)
\* percent_decode_str(..).decode_utf8_lossy()
PercentDecode(s) == [i \in 1 .. Len(s) |-> IF s[i] = "%2F" THEN "/" ELSE s[i]]

\* parse_content_disposition: the capture of the filename parameter,
\* percent-decoded when it starts with UTF-8''
ParseContentDisposition(header) ==
    IF header.kind = "filename" THEN Some(header.value)
    ELSE IF header.kind = "filename_utf8" THEN Some(PercentDecode(header.value))
    ELSE None

\* Path::components, without the empty and the "." components
RECURSIVE Components(_)
Components(s) ==
    IF s = <<>> THEN <<>>
    ELSE LET cut == IF \E i \in 1 .. Len(s) : s[i] = "/"
                    THEN CHOOSE i \in 1 .. Len(s) :
                             s[i] = "/" /\ \A j \in 1 .. (i - 1) : s[j] # "/"
                    ELSE Len(s) + 1
             head == SubSeq(s, 1, cut - 1)
             rest == SubSeq(s, cut + 1, Len(s))
         IN  IF head \in {<<>>, <<".">>} THEN Components(rest)
             ELSE <<head>> \o Components(rest)

\* Path::file_name
FileName(s) ==
    LET c == Components(s)
    IN  IF c = <<>> \/ c[Len(c)] = <<".", ".">> THEN None ELSE Some(c[Len(c)])

\* Path::new(&decoded).extension().is_some(): the file name has a '.' that
\* is not its first character
HasExtension(s) ==
    LET f == FileName(s)
    IN  f.some /\ \E i \in 2 .. Len(f.name) : f.name[i] = "."

\* sanitize_filename::sanitize: illegal characters removed, a name of dots
\* only replaced by the empty name
Sanitize(s) ==
    LET t == SelectSeq(s, LAMBDA c : c # "/")
    IN  IF \A i \in 1 .. Len(t) : t[i] = "." THEN <<>> ELSE t

RandomTokens == {"r1", "r2"}

HeaderChars == {"a", ".", "/", "%2F"}
SegmentChars == {"a", ".", "%2F"}

Headers ==
    {[kind |-> "absent", value |-> <<>>], [kind |-> "no_filename", value |-> <<>>]}
    \cup [kind : {"filename", "filename_utf8"}, value : SeqsUpTo(HeaderChars, MaxHeaderLen)]

InitNaming ==
    /\ cpc = "name_info"
    /\ progress_file = NewProgressFile(0)
    /\ journal_file = AbsentFile
    /\ disk = <<>>
    /\ info = NoInfo
    /\ plan_input = NoPlanInput
    /\ retry = NoRetry
    /\ bulk = NoBulk
    /\ stream = NoStream
    /\ local = NoLocal
    /\ naming \in {[NoNaming EXCEPT !.header = h, !.segment = g] :
                       h \in Headers, g \in SeqsUpTo(SegmentChars, MaxSegmentLen)}
    /\ Idle
    /\ MoreIdle

\* what name resolution leaves alone
namingFrame == <<downloadVars, plannerVars, retry, bulk, stream, local, moreVars>>

\* get_or_parse up to the sniff, with the URL's last segment consulted first
NameFromInfoUrlFirst ==
    /\ cpc = "name_info"
    /\ LET name == ParseContentDisposition(naming.header)
           decoded == PercentDecode(naming.segment)
       IN  IF decoded # <<>> /\ HasExtension(decoded)
           THEN /\ naming' = [naming EXCEPT !.result = Some(decoded)]
                /\ cpc' = "name_resolved"
           ELSE IF name.some
           THEN /\ naming' = [naming EXCEPT !.result = name]
                /\ cpc' = "name_resolved"
           ELSE /\ cpc' = "name_sniff"
                /\ UNCHANGED naming
    /\ UNCHANGED namingFrame

\* get_or_parse up to the sniff: the name of get_info, else the decoded
\* last segment if it is non-empty and has an extension
NameFromInfo ==
    /\ cpc = "name_info"
    /\ LET name == ParseContentDisposition(naming.header)
           decoded == PercentDecode(naming.segment)
       IN  IF name.some
           THEN /\ naming' = [naming EXCEPT !.result = name]
                /\ cpc' = "name_resolved"
           ELSE IF decoded # <<>> /\ HasExtension(decoded)
           THEN /\ naming' = [naming EXCEPT !.result = Some(decoded)]
                /\ cpc' = "name_resolved"
           ELSE /\ cpc' = "name_sniff"
                /\ UNCHANGED naming
    /\ UNCHANGED namingFrame

\* get_or_parse from get_bytes_range on: the request may fail, a chunk may
\* be an error, and the sniffer may or may not know the leading bytes
NameFromSniff ==
    /\ cpc = "name_sniff"
    /\ \E outcome \in {"range_err", "chunk_err", "no_ext", "ext"}, random_no \in RandomTokens :
       LET decoded == PercentDecode(naming.segment)
       IN  /\ naming' =
                 [naming EXCEPT
                     !.sniff = outcome,
                     !.result =
                         IF outcome # "ext" THEN None
                         ELSE IF decoded # <<>> /\ ~HasExtension(decoded)
                              THEN Some(decoded \o <<".", "zip">>)
                              ELSE Some(Sanitize(<<random_no, ".", "zip">>))]
           /\ cpc' = IF outcome = "chunk_err" THEN "name_failed" ELSE "name_resolved"
    /\ UNCHANGED namingFrame

\* download_single: the name found, or "download"
Filename ==
    /\ cpc = "name_resolved"
    /\ naming' = [naming EXCEPT
                     !.filename = IF naming.result.some THEN naming.result.name
                                  ELSE <<"download">>]
    /\ cpc' = "name_done"
    /\ UNCHANGED namingFrame

NextNaming == NameFromInfo \/ NameFromSniff \/ Filename

SpecNaming == InitNaming /\ [][NextNaming]_vars

(***************************************************************************)
(* Download manager: DownloadManager::new builds one task per URL and      *)
(* start_tasks runs each task on a thread of its own inside thread::scope. *)
(* A URL is given by what new meets for it: whether its name and size      *)
(* probes succeed and whether its destination file exists.                 *)
(***************************************************************************)
Urls == [probe : {"ok", "err"}, exists : BOOLEAN]

InitBulk ==
    /\ cpc = "manager_new"
    /\ progress_file = NewProgressFile(0)
    /\ journal_file = AbsentFile
    /\ disk = <<>>
    /\ info = NoInfo
    /\ plan_input = NoPlanInput
    /\ retry = NoRetry
    /\ naming = NoNaming
    /\ stream = NoStream
    /\ local = NoLocal
    /\ bulk \in {[NoBulk EXCEPT !.urls = u, !.thread = [i \in 1 .. Len(u) |-> "none"]] :
                     u \in SeqsUpTo(Urls, MaxUrls)}
    /\ Idle
    /\ MoreIdle

\* what the download manager leaves alone
bulkFrame == <<downloadVars, plannerVars, retry, naming, stream, local, moreVars>>

\* DownloadManager::new, one turn of its loop: check_name and
\* DownloadTask::new return early with `?`; an existing file returns a
\* manager without tasks
NewTask ==
    /\ cpc = "manager_new"
    /\ bulk.next <= Len(bulk.urls)
    /\ LET url == bulk.urls[bulk.next]
       IN  IF url.probe = "err"
           THEN /\ cpc' = "manager_err"
                /\ UNCHANGED bulk
           ELSE IF url.exists
           THEN /\ bulk' = [bulk EXCEPT !.tasks = <<>>]
                /\ cpc' = "start_tasks"
           ELSE /\ bulk' = [bulk EXCEPT !.tasks = Append(@, bulk.next),
                                        !.next = @ + 1]
                /\ UNCHANGED cpc
    /\ UNCHANGED bulkFrame

\* DownloadManager::new, after the loop: Ok(DownloadManager { tasks })
ManagerBuilt ==
    /\ cpc = "manager_new"
    /\ bulk.next > Len(bulk.urls)
    /\ cpc' = "start_tasks"
    /\ UNCHANGED <<bulk, bulkFrame>>

\* start_tasks: a thread is spawned for every task
SpawnThreads ==
    /\ cpc = "start_tasks"
    /\ bulk' = [bulk EXCEPT
                   !.thread = [i \in 1 .. Len(bulk.urls) |->
                                  IF \E k \in 1 .. Len(bulk.tasks) : bulk.tasks[k] = i
                                  THEN "running" ELSE "none"]]
    /\ cpc' = "scope"
    /\ UNCHANGED bulkFrame

\* task.start() on its thread, whose result nobody reads
TaskStart ==
    /\ cpc = "scope"
    /\ \E i \in 1 .. Len(bulk.urls), result \in {"ok", "err"} :
       /\ bulk.thread[i] = "running"
       /\ bulk' = [bulk EXCEPT !.thread[i] = result]
    /\ UNCHANGED <<cpc, bulkFrame>>

\* thread::scope returns once every thread has ended; start_tasks returns
\* Ok(())
ScopeEnd ==
    /\ cpc = "scope"
    /\ \A i \in 1 .. Len(bulk.urls) : bulk.thread[i] # "running"
    /\ cpc' = "tasks_done"
    /\ UNCHANGED <<bulk, bulkFrame>>

NextBulk == NewTask \/ ManagerBuilt \/ SpawnThreads \/ TaskStart \/ ScopeEnd

SpecBulk == InitBulk /\ [][NextBulk]_vars

(***************************************************************************)
(* Byte stream: create_byte_stream spawns the producer (the request and    *)
(* process_chunk) with the sending end of a bounded channel, and returns   *)
(* the receiving end as the stream together with the producer's handle.    *)
(* The client's timeout bounds every wait on the origin, so a wait for the *)
(* response or for a chunk always returns.                                 *)
(***************************************************************************)
InitStream ==
    /\ cpc = "stream"
    /\ progress_file = NewProgressFile(0)
    /\ journal_file = AbsentFile
    /\ disk = <<>>
    /\ info = NoInfo
    /\ plan_input = NoPlanInput
    /\ retry = NoRetry
    /\ naming = NoNaming
    /\ bulk = NoBulk
    /\ local = NoLocal
    /\ stream \in {[NoStream EXCEPT !.response = r, !.body = b, !.ending = e,
                                    !.producer = "request", !.consumer = "reading"] :
                       r \in {"ok", "send_err"}, b \in 0 .. MaxBodyChunks,
                       e \in {"eof", "err"}}
    /\ Idle
    /\ MoreIdle

\* what a stream leaves alone
streamFrame == <<cpc, downloadVars, plannerVars, retry, naming, bulk, local, moreVars>>

\* the producer: client.get(url).send().await
SendRequest ==
    /\ stream.producer = "request"
    /\ stream' = IF stream.response = "ok"
                 THEN [stream EXCEPT !.producer = "chunk"]
                 ELSE [stream EXCEPT !.producer = "send", !.item = "err", !.last = TRUE]
    /\ UNCHANGED streamFrame

\* process_chunk: resp.chunk().await
RespChunk ==
    /\ stream.producer = "chunk"
    /\ stream' = IF stream.body > 0
                 THEN [stream EXCEPT !.body = @ - 1, !.item = "chunk", !.producer = "send"]
                 ELSE IF stream.ending = "eof"
                 THEN [stream EXCEPT !.producer = "returned"]
                 ELSE [stream EXCEPT !.item = "err", !.last = TRUE, !.producer = "send"]
    /\ UNCHANGED streamFrame

\* tx.send(item).await with a sender that waits for room even when the
\* receiver is gone
TxSendIgnoresDrop ==
    /\ stream.producer = "send"
    /\ Len(stream.channel) < BufferSize
    /\ stream.consumer # "dropped"
    /\ stream' = [stream EXCEPT !.channel = Append(@, stream.item),
                                !.item = "none",
                                !.producer = IF stream.last THEN "returned" ELSE "chunk"]
    /\ UNCHANGED streamFrame

\* tx.send(item).await: waits for room in the channel; an Err, which a
\* dropped receiver gives, ends the loop, and so does having sent an error
TxSend ==
    /\ stream.producer = "send"
    /\ \/ /\ stream.consumer = "dropped"
          /\ stream' = [stream EXCEPT !.item = "none", !.producer = "returned"]
       \/ /\ stream.consumer # "dropped"
          /\ Len(stream.channel) < BufferSize
          /\ stream' = [stream EXCEPT
                           !.channel = Append(@, stream.item),
                           !.item = "none",
                           !.producer = IF stream.last THEN "returned" ELSE "chunk"]
    /\ UNCHANGED streamFrame

\* the producer's future returns after the loop and drops tx: the spawned
\* task ends and the JoinHandle resolves
HandleResolves ==
    /\ stream.producer = "returned"
    /\ stream' = [stream EXCEPT !.producer = "resolved"]
    /\ UNCHANGED streamFrame

\* the consumer: stream.next().await, which gives None once the channel is
\* empty and tx is dropped
StreamNext ==
    /\ stream.consumer \in {"reading", "error_seen"}
    /\ \/ /\ stream.channel # <<>>
          /\ stream' = [stream EXCEPT
                           !.channel = Tail(@),
                           !.received = IF Head(stream.channel) = "chunk" THEN @ + 1 ELSE @,
                           !.consumer = IF Head(stream.channel) = "err"
                                        THEN "error_seen" ELSE @]
       \/ /\ stream.channel = <<>>
          /\ stream.producer \in {"returned", "resolved"}
          /\ stream' = [stream EXCEPT !.consumer = "ended"]
    /\ UNCHANGED streamFrame

\* the consumer drops the stream: the receiver closes and what is queued
\* is discarded
DropStream ==
    /\ stream.consumer \in {"reading", "error_seen"}
    /\ stream' = [stream EXCEPT !.consumer = "dropped", !.channel = <<>>]
    /\ UNCHANGED streamFrame

NextStream ==
    SendRequest \/ RespChunk \/ TxSend \/ HandleResolves \/ StreamNext \/ DropStream

\* the runtime keeps polling the spawned producer: none of its steps stays
\* enabled forever without being taken
SpecStream ==
    /\ InitStream
    /\ [][NextStream]_vars
    /\ WF_vars(SendRequest)
    /\ WF_vars(RespChunk)
    /\ WF_vars(TxSend)
    /\ WF_vars(HandleResolves)

(***************************************************************************)
(* save_to_local: handle() builds the writer, calls receive_data, which    *)
(* reads the whole body into a bounded channel before it returns the       *)
(* receiving end, probes the size, and then appends what the stream gives  *)
(* to the writer.  The k-th chunk of the body is the number k; the writer  *)
(* buffers what is written and close_fs flushes it to the file.            *)
(***************************************************************************)
InitLocal ==
    /\ cpc = "receive_data"
    /\ progress_file = NewProgressFile(0)
    /\ journal_file = AbsentFile
    /\ disk = <<>>
    /\ info = NoInfo
    /\ plan_input = NoPlanInput
    /\ retry = NoRetry
    /\ naming = NoNaming
    /\ bulk = NoBulk
    /\ stream = NoStream
    /\ local \in {[NoLocal EXCEPT !.response = r, !.chunks = n, !.ending = e,
                                  !.probe = q, !.disk_fails = d,
                                  !.prior = o, !.file = o] :
                      r \in {"ok", "send_err"}, n \in 0 .. (ChannelCapacity + 1),
                      e \in {"eof", "err"}, q \in {"ok", "err"}, d \in BOOLEAN,
                      o \in {<<>>, <<0>>}}
    /\ Idle
    /\ MoreIdle

\* what handle() leaves alone
localFrame == <<downloadVars, plannerVars, retry, naming, bulk, stream, moreVars>>

\* receive_data: self.client.get(source).send().await
ReceiveData ==
    /\ cpc = "receive_data"
    /\ IF local.response = "ok"
       THEN /\ cpc' = "resp_chunk"
            /\ UNCHANGED local
       ELSE /\ local' = [local EXCEPT !.stream_result = "err"]
            /\ cpc' = "total_bytes"
    /\ UNCHANGED localFrame

\* receive_data: resp.chunk().await; Ok(None) ends the loop and returns
\* the receiver, an Err returns Err
ReceiveChunk ==
    /\ cpc = "resp_chunk"
    /\ IF local.arrived < local.chunks
       THEN /\ local' = [local EXCEPT !.arrived = @ + 1, !.item = local.arrived + 1]
            /\ cpc' = "tx_send"
       ELSE /\ local' = [local EXCEPT
                            !.stream_result = IF local.ending = "eof" THEN "ok" ELSE "err"]
            /\ cpc' = "total_bytes"
    /\ UNCHANGED localFrame

\* receive_data: tx.send(Ok(bytes)).await, which waits for room in the
\* channel; nothing receives before receive_data has returned
ReceiveTxSend ==
    /\ cpc = "tx_send"
    /\ Len(local.channel) < ChannelCapacity
    /\ local' = [local EXCEPT !.channel = Append(@, local.item), !.item = 0]
    /\ cpc' = "resp_chunk"
    /\ UNCHANGED localFrame

\* handle: transport.total_bytes(url).await? and CliProgressTracker::new
TotalBytes ==
    /\ cpc = "total_bytes"
    /\ IF local.probe = "ok"
       THEN /\ cpc' = "match"
            /\ UNCHANGED local
       ELSE /\ local' = [local EXCEPT !.result = "err"]
            /\ cpc' = "returned"
    /\ UNCHANGED localFrame

\* close_fs: writer.close() flushes the buffer to the file
CloseFs(l) ==
    [l EXCEPT !.file = @ \o l.written, !.written = <<>>, !.closed = TRUE]

\* handle: the Err arm of the match: close_fs, then return Err
StreamErr ==
    /\ cpc = "match"
    /\ local.stream_result = "err"
    /\ local' = [CloseFs(local) EXCEPT !.result = "err"]
    /\ cpc' = "returned"
    /\ UNCHANGED localFrame

\* handle: stream.try_next().await? in the Ok arm; after None, close_fs,
\* tracker.finish and Ok(())
TryNext ==
    /\ cpc = "match"
    /\ local.stream_result = "ok"
    /\ IF local.channel # <<>>
       THEN /\ local' = [local EXCEPT !.item = Head(local.channel),
                                      !.channel = Tail(@)]
            /\ cpc' = "append_bytes"
       ELSE /\ local' = [CloseFs(local) EXCEPT !.finished = TRUE, !.result = "ok"]
            /\ cpc' = "returned"
    /\ UNCHANGED localFrame

\* handle: tracker.update, then fs_writer.append_bytes(bytes).await?, which
\* discards what writer.write returned and answers Ok(())
AppendBytes ==
    /\ cpc = "append_bytes"
    /\ \E write_ok \in {TRUE} \cup {~local.disk_fails} :
       local' = [local EXCEPT
                    !.bytes = @ + 1,
                    !.written = IF write_ok THEN Append(@, local.item) ELSE @,
                    !.write_failed = @ \/ ~write_ok,
                    !.item = 0]
    /\ cpc' = "match"
    /\ UNCHANGED localFrame

NextLocal ==
    ReceiveData \/ ReceiveChunk \/ ReceiveTxSend \/ TotalBytes \/ StreamErr
    \/ TryNext \/ AppendBytes

SpecLocal == InitLocal /\ [][NextLocal]_vars

(***************************************************************************)
(* Sniffing: get_or_parse reads the stream of get_bytes_range until it has *)
(* the leading bytes, and then awaits the producer's handle while it still *)
(* holds the stream.  A chunk counts as the leading bytes' unit.           *)
(***************************************************************************)
InitSniff ==
    /\ cpc = "sniff_next"
    /\ progress_file = NewProgressFile(0)
    /\ journal_file = AbsentFile
    /\ disk = <<>>
    /\ info = NoInfo
    /\ plan_input = NoPlanInput
    /\ retry = NoRetry
    /\ naming = NoNaming
    /\ bulk = NoBulk
    /\ local = NoLocal
    /\ stream \in {[NoStream EXCEPT !.response = r, !.body = b, !.ending = e,
                                    !.producer = "request", !.consumer = "reading"] :
                       r \in {"ok", "send_err"},
                       b \in 0 .. (SniffChunks + BufferSize + 1),
                       e \in {"eof", "err"}}
    /\ Idle
    /\ MoreIdle

\* what the sniff leaves alone
sniffFrame == <<downloadVars, plannerVars, retry, naming, bulk, local, moreVars>>

\* get_or_parse: stream.next().await in the while loop; `chunk_result?`
\* returns on an error item, `break` leaves the loop with the leading bytes
SniffNext ==
    /\ cpc = "sniff_next"
    /\ \/ /\ stream.channel # <<>>
          /\ Head(stream.channel) = "err"
          /\ stream' = [stream EXCEPT !.consumer = "dropped", !.channel = <<>>]
          /\ cpc' = "sniff_returned"
       \/ /\ stream.channel # <<>>
          /\ Head(stream.channel) = "chunk"
          /\ stream' = [stream EXCEPT !.channel = Tail(@), !.received = @ + 1]
          /\ cpc' = IF stream.received + 1 >= SniffChunks
                    THEN "sniff_await" ELSE "sniff_next"
       \/ /\ stream.channel = <<>>
          /\ stream.producer \in {"returned", "resolved"}
          /\ cpc' = "sniff_await"
          /\ UNCHANGED stream
    /\ UNCHANGED sniffFrame

\* get_or_parse: `let _ = handle.await;`, after which it returns and the
\* stream is dropped
SniffAwaitHandle ==
    /\ cpc = "sniff_await"
    /\ stream.producer = "resolved"
    /\ stream' = [stream EXCEPT !.consumer = "dropped", !.channel = <<>>]
    /\ cpc' = "sniff_returned"
    /\ UNCHANGED sniffFrame

NextSniff ==
    SendRequest \/ RespChunk \/ TxSend \/ HandleResolves \/ SniffNext
    \/ SniffAwaitHandle

SpecSniff == InitSniff /\ [][NextSniff]_vars

(***************************************************************************)
(* Fixed-size chunking: the loop of do_multi_part and generate_chunk, on   *)
(* usize values of UsizeBits bits, in a build with overflow checks and in  *)
(* a build without.  A call returns its ranges, panics, or, when a wrapped *)
(* sum sends the loop back to a start it has had, never ends.              *)
(***************************************************************************)
ChunkReturn(rs) == [outcome |-> "return", ranges |-> rs]
ChunkPanic == [outcome |-> "panic", ranges |-> <<>>]
ChunkLoops(rs) == [outcome |-> "loop", ranges |-> rs]

\* (start + part_size - 1).min(file_size - 1) of a build without overflow
\* checks
WrappedEnd(start, file_size, part_size) ==
    Min((start + part_size - 1) % UsizeModulus, file_size - 1)

\* do_multi_part: `while start < file_size { ... start = end + 1; }`
RECURSIVE InlineLoop(_, _, _, _, _, _)
InlineLoop(start, file_size, part_size, overflow_checks, rs, seen) ==
    IF ~(start < file_size) THEN ChunkReturn(rs)
    ELSE IF start \in seen THEN ChunkLoops(rs)
    ELSE IF overflow_checks /\ start + part_size >= UsizeModulus THEN ChunkPanic
    ELSE LET end == WrappedEnd(start, file_size, part_size)
         IN  InlineLoop(end + 1, file_size, part_size, overflow_checks,
                        Append(rs, <<start, end>>), seen \cup {start})

InlineRanges(file_size, part_size, overflow_checks) ==
    InlineLoop(0, file_size, part_size, overflow_checks, <<>>, {})

\* generate_chunk: `for start in (0..download_size).step_by(chunk)`
RECURSIVE GenerateLoop(_, _, _, _, _)
GenerateLoop(start, download_size, chunk, overflow_checks, handle) ==
    IF ~(start < download_size) THEN ChunkReturn(handle)
    ELSE IF overflow_checks /\ start + chunk >= UsizeModulus THEN ChunkPanic
    ELSE GenerateLoop(start + chunk, download_size, chunk, overflow_checks,
                      Append(handle, <<start, WrappedEnd(start, download_size, chunk)>>))

\* generate_chunk(download_size, Some(chunk))
GenerateChunk(download_size, chunk, overflow_checks) ==
    GenerateLoop(0, download_size, chunk, overflow_checks, <<>>)

InitChunking ==
    /\ cpc = "chunking"
    /\ progress_file = NewProgressFile(0)
    /\ journal_file = AbsentFile
    /\ disk = <<>>
    /\ info = NoInfo
    /\ plan_input = NoPlanInput
    /\ chunking \in {[NoChunking EXCEPT !.file_size = f, !.part_size = q,
                                        !.overflow_checks = c] :
                         f \in 0 .. (UsizeModulus - 1), q \in 1 .. (UsizeModulus - 1),
                         c \in BOOLEAN}
    /\ Idle
    /\ CoreServicesIdle
    /\ syncRetry = NoSyncRetry
    /\ multi = NoMulti
    /\ task = NoTask
    /\ part = NoPart
    /\ diskfs = NoDiskfs

\* what the chunking leaves alone
chunkingFrame == <<cpc, downloadVars, plannerVars, coreServiceVars, diskfs, part, task, multi, syncRetry>>

\* do_multi_part: "compute ranges"
ComputeInline ==
    /\ cpc = "chunking"
    /\ chunking.inline.outcome = "none"
    /\ chunking' = [chunking EXCEPT
                       !.inline = InlineRanges(chunking.file_size, chunking.part_size,
                                               chunking.overflow_checks)]
    /\ UNCHANGED chunkingFrame

\* generate_chunk(file_size, Some(part_size))
CallGenerateChunk ==
    /\ cpc = "chunking"
    /\ chunking.generated.outcome = "none"
    /\ chunking' = [chunking EXCEPT
                       !.generated = GenerateChunk(chunking.file_size, chunking.part_size,
                                                   chunking.overflow_checks)]
    /\ UNCHANGED chunkingFrame

NextChunking == ComputeInline \/ CallGenerateChunk

SpecChunking == InitChunking /\ [][NextChunking]_vars

(***************************************************************************)
(* DiskFileSystem: writes through the handle cache.  A handle is an open   *)
(* file with its own cursor; a handle opened with append(true) writes at   *)
(* the end of the file wherever its cursor was put.                        *)
(***************************************************************************)
\* the bytes of the n-th call's buffer, unlike any byte written before
BufOf(n) == [i \in 1 .. BufLen |-> InitLen + (n - 1) * BufLen + (i - 1)]

ExistingFile(content) == [exists |-> TRUE, content |-> content]

\* write_all + flush through handle h on a file of the given content
HandleWrite(content, h, data) ==
    LET at == IF h.append THEN Len(content) ELSE h.cursor
        len == IF Len(content) > at + Len(data) THEN Len(content) ELSE at + Len(data)
    IN  [content |-> [i \in 1 .. len |->
                         IF i > at /\ i <= at + Len(data) THEN data[i - at]
                         ELSE IF i <= Len(content) THEN content[i]
                         ELSE HoleByte],
         cursor |-> at + Len(data)]

Cached(fs) == {p \in Paths : fs.handle_cache[p].open}

\* buf_writer_handle(path, mode): the filesystems it may leave, each with
\* the handle in the cache for path; the empty set when the open fails
BufWriterHandle(fs, path, mode) ==
    IF fs.handle_cache[path].open THEN {fs}
    ELSE IF mode # "Create" /\ ~fs.files[path].exists THEN {}
    ELSE LET opened == [fs EXCEPT !.files[path] = ExistingFile(fs.files[path].content)]
             handle == [open |-> TRUE, append |-> mode = "Append", cursor |-> 0]
         IN  IF Cardinality(Cached(fs)) >= MaxHandleCache
             THEN {[opened EXCEPT !.handle_cache[old_key] = NoHandle,
                                  !.handle_cache[path] = handle] :
                       old_key \in Cached(fs)}
             ELSE {[opened EXCEPT !.handle_cache[path] = handle]}

\* the call that is made: its operation and arguments, the file before it
CallOf(fs, op, path, pos) ==
    [op |-> op, path |-> path, pos |-> pos, buf |-> BufOf(fs.calls + 1),
     before |-> fs.files[path].content, result |-> "none"]

\* the rest of a writing call once the handle is there: an optional seek,
\* write_all, flush
WriteThrough(fs, call, seeks) ==
    LET h == fs.handle_cache[call.path]
        placed == IF seeks THEN [h EXCEPT !.cursor = call.pos] ELSE h
        w == HandleWrite(fs.files[call.path].content, placed, call.buf)
    IN  [fs EXCEPT !.files[call.path].content = w.content,
                   !.handle_cache[call.path].cursor = w.cursor,
                   !.call = [call EXCEPT !.result = "ok"],
                   !.calls = @ + 1]

CallFails(fs, call) ==
    [fs EXCEPT !.call = [call EXCEPT !.result = "err"], !.calls = @ + 1]

\* a writing call with the given open mode
WritingCall(op, mode, path, pos, seeks) ==
    LET call == CallOf(diskfs, op, path, pos)
        handles == BufWriterHandle(diskfs, path, mode)
    IN  IF handles = {}
        THEN diskfs' = CallFails(diskfs, call)
        ELSE \E fs \in handles : diskfs' = WriteThrough(fs, call, seeks)

InitDiskfs ==
    /\ cpc = "diskfs"
    /\ progress_file = NewProgressFile(0)
    /\ journal_file = AbsentFile
    /\ disk = <<>>
    /\ info = NoInfo
    /\ plan_input = NoPlanInput
    /\ Idle
    /\ CoreServicesIdle
    /\ syncRetry = NoSyncRetry
    /\ multi = NoMulti
    /\ task = NoTask
    /\ part = NoPart
    /\ chunking = NoChunking
    /\ diskfs \in {[NoDiskfs EXCEPT !.files = f] :
                      f \in [Paths -> {AbsentFile,
                                       ExistingFile([i \in 1 .. InitLen |-> i - 1])}]}

\* what the filesystem adapter leaves alone
diskfsFrame == <<cpc, downloadVars, plannerVars, coreServiceVars, chunking, part, task, multi, syncRetry>>

\* append_to_file(content, path)
AppendToFile ==
    /\ cpc = "diskfs"
    /\ diskfs.calls < MaxCalls
    /\ \E path \in Paths : WritingCall("append_to_file", "Append", path, 0, FALSE)
    /\ UNCHANGED diskfsFrame

\* write_file(content, path)
WriteFile ==
    /\ cpc = "diskfs"
    /\ diskfs.calls < MaxCalls
    /\ \E path \in Paths : WritingCall("write_file", "Append", path, 0, FALSE)
    /\ UNCHANGED diskfsFrame

\* write_at(path, pos, buf)
WriteAt ==
    /\ cpc = "diskfs"
    /\ diskfs.calls < MaxCalls
    /\ \E path \in Paths, pos \in 0 .. InitLen :
           WritingCall("write_at", "Write", path, pos, TRUE)
    /\ UNCHANGED diskfsFrame

\* create_file(path)
CreateFile ==
    /\ cpc = "diskfs"
    /\ diskfs.calls < MaxCalls
    /\ \E path \in Paths :
        \E fs \in BufWriterHandle(diskfs, path, "Create") :
            diskfs' = [fs EXCEPT
                          !.call = [CallOf(diskfs, "create_file", path, 0)
                                        EXCEPT !.buf = <<>>, !.result = "ok"],
                          !.calls = @ + 1]
    /\ UNCHANGED diskfsFrame

NextDiskfs == AppendToFile \/ WriteFile \/ WriteAt \/ CreateFile

SpecDiskfs == InitDiskfs /\ [][NextDiskfs]_vars

(***************************************************************************)
(* Sync downloader: one DownloadPart.  The part for the inclusive range    *)
(* [bytes_start, bytes_end] has a part file; check_part classifies what is *)
(* on disk and get_part downloads or resumes.  The server honours Range.   *)
(* metadata and exists do not fail.                                        *)
(***************************************************************************)
\* the bytes first .. last of the source
SourceBytes(first, last) == [i \in 1 .. (last - first + 1) |-> SourceByte(first + i - 1)]

\* get_metadata on a part file of part_size_on_fs bytes
GetMetadata(bytes_end, part_size_on_fs) ==
    IF bytes_end = part_size_on_fs THEN PartStatus("Completed", part_size_on_fs)
    ELSE IF part_size_on_fs > 0 /\ part_size_on_fs < bytes_end
         THEN PartStatus("Broken", part_size_on_fs)
    ELSE PartStatus("Starting", 0)

\* check_part: the status it sets
CheckedStatus(bytes_end, file) ==
    IF file.exists THEN GetMetadata(bytes_end, Len(file.content))
    ELSE PartStatus("Starting", 0)

\* get_part: the bytes_offset it hands to write_to_path
BytesOffset(part_status, bytes_start) ==
    IF part_status.kind = "Broken" THEN part_status.bytes ELSE bytes_start

\* the body of the response to `Range: bytes=bytes_offset-bytes_end`
RangeBody(bytes_offset, bytes_end) == SourceBytes(bytes_offset, bytes_end)

PartRanges == {r \in (0 .. (SyncSize - 1)) \X (0 .. (SyncSize - 1)) : r[1] <= r[2]}

\* what a previous run may have left of the part file: nothing, or the
\* leading bytes of the part
PartFiles(bytes_start, bytes_end) ==
    {AbsentFile} \cup {ExistingFile(SourceBytes(bytes_start, bytes_start + n - 1)) :
                          n \in 0 .. (bytes_end - bytes_start + 1)}

InitPart ==
    /\ cpc = "part"
    /\ progress_file = NewProgressFile(0)
    /\ journal_file = AbsentFile
    /\ disk = <<>>
    /\ info = NoInfo
    /\ plan_input = NoPlanInput
    /\ Idle
    /\ CoreServicesIdle
    /\ syncRetry = NoSyncRetry
    /\ multi = NoMulti
    /\ task = NoTask
    /\ chunking = NoChunking
    /\ diskfs = NoDiskfs
    /\ \E r \in PartRanges :
        \E f \in PartFiles(r[1], r[2]) :
            part = [NoPart EXCEPT !.bytes_start = r[1], !.bytes_end = r[2],
                                  !.file = f, !.found = f]

\* what a part leaves alone
partFrame == <<cpc, downloadVars, plannerVars, coreServiceVars, chunking, diskfs, task, multi, syncRetry>>

\* check_part
CheckPart ==
    /\ cpc = "part"
    /\ part.pc = "new"
    /\ part' = [part EXCEPT !.status = CheckedStatus(part.bytes_end, part.file),
                            !.pc = "checked"]
    /\ UNCHANGED partFrame

\* get_part on a part found Completed
GetPartCompleted ==
    /\ cpc = "part"
    /\ part.pc = "checked"
    /\ part.status.kind = "Completed"
    /\ part' = [part EXCEPT !.entry = part.status, !.pc = "returned", !.result = "ok"]
    /\ UNCHANGED partFrame

\* get_part on a part found Starting or Broken, up to the end of
\* retry_request in write_to_path
GetPartRequest ==
    /\ cpc = "part"
    /\ part.pc = "checked"
    /\ part.status.kind \in {"Starting", "Broken"}
    /\ \E sent \in BOOLEAN :
        part' = [part EXCEPT
                    !.entry = part.status,
                    !.status = PartStatus("Started", 0),
                    !.body = IF sent
                             THEN RangeBody(BytesOffset(part.status, part.bytes_start),
                                            part.bytes_end)
                             ELSE <<>>,
                    !.pc = IF sent THEN "create" ELSE "returned",
                    !.result = IF sent THEN "none" ELSE "err"]
    /\ UNCHANGED partFrame

\* write_to_path: self.fs.create_file(&self.part_path), File::create
PartCreateFile ==
    /\ cpc = "part"
    /\ part.pc = "create"
    /\ part' = [part EXCEPT !.file = ExistingFile(<<>>), !.pc = "read"]
    /\ UNCHANGED partFrame

\* write_to_path: one turn of the loop, response.read then write_all
PartReadWrite ==
    /\ cpc = "part"
    /\ part.pc = "read"
    /\ \/ /\ part.body # <<>>
          /\ part' = [part EXCEPT !.file.content = Append(@, Head(part.body)),
                                  !.body = Tail(@)]
       \/ /\ part.body # <<>>
          /\ part' = [part EXCEPT !.pc = "returned", !.result = "err"]
       \/ /\ part.body = <<>>
          /\ part' = [part EXCEPT
                         !.status = PartStatus("Completed", part.bytes_end),
                         !.pc = "returned", !.result = "ok"]
    /\ UNCHANGED partFrame

NextPart == CheckPart \/ GetPartCompleted \/ GetPartRequest \/ PartCreateFile \/ PartReadWrite

SpecPart == InitPart /\ [][NextPart]_vars

(***************************************************************************)
(* Sync downloader: DownloadTask::start.  The parts of the plan run in     *)
(* parallel (par_iter), each as one check_part().get_part(); the results   *)
(* are collected in plan order, then the part files are added to the       *)
(* destination and the parts directory is removed.  `joined` remembers the *)
(* part files as they were when the last part had run.                     *)
(***************************************************************************)
\* sync_client split_parts: the loop over 0 .. num_parts - 1
RECURSIVE SyncSplitLoop(_, _, _, _, _, _)
SyncSplitLoop(i, num_parts, chunk_bytes, remaining_chunk, current_start, parts) ==
    IF i >= num_parts THEN parts
    ELSE LET current_end == current_start + chunk_bytes - 1
                            + (IF i < remaining_chunk THEN 1 ELSE 0)
         IN  SyncSplitLoop(i + 1, num_parts, chunk_bytes, remaining_chunk, current_end + 1,
                           Append(parts, <<current_start, current_end>>))

\* sync_client split_parts(file_size_bytes, max_concurrent_part, min_split_part_mb)
SyncSplitParts(file_size_bytes, max_concurrent_part, min_split_part_mb) ==
    LET min_split_part_bytes == min_split_part_mb * MbBytes
    IN  IF file_size_bytes = 0 THEN <<>>
        ELSE IF file_size_bytes <= min_split_part_bytes \/ min_split_part_bytes = 0
             THEN <<<<0, file_size_bytes - 1>>>>
        ELSE LET num_part_ideal == file_size_bytes \div min_split_part_bytes
                 num_parts == Min(IF num_part_ideal > 0 THEN num_part_ideal ELSE 1,
                                  max_concurrent_part)
             IN  SyncSplitLoop(0, num_parts, file_size_bytes \div num_parts,
                               file_size_bytes % num_parts, 0, <<>>)

\* the contents of the files, one after the other
RECURSIVE Concatenated(_)
Concatenated(contents) ==
    IF contents = <<>> THEN <<>>
    ELSE Head(contents) \o Concatenated(Tail(contents))

\* `completed_parts.push(task?)` over the collected results: every one Ok
AllPartsOkIgnoringErr(results) == TRUE
AllPartsOk(results) == \A i \in 1 .. Len(results) : results[i] = "ok"

\* the part files a previous run may have left for a plan
RECURSIVE PlanFiles(_)
PlanFiles(parts) ==
    IF parts = <<>> THEN {<<>>}
    ELSE {<<f>> \o rest : f \in PartFiles(Head(parts)[1], Head(parts)[2]),
                         rest \in PlanFiles(Tail(parts))}

InitTask ==
    /\ cpc = "task"
    /\ progress_file = NewProgressFile(0)
    /\ journal_file = AbsentFile
    /\ disk = <<>>
    /\ info = NoInfo
    /\ plan_input = NoPlanInput
    /\ Idle
    /\ CoreServicesIdle
    /\ syncRetry = NoSyncRetry
    /\ multi = NoMulti
    /\ chunking = NoChunking
    /\ diskfs = NoDiskfs
    /\ part = NoPart
    /\ \E size \in 0 .. (2 * MbBytes), conc \in 1 .. 2, d \in {AbsentFile, ExistingFile(<<HoleByte>>)} :
        \E fs \in PlanFiles(SyncSplitParts(size, conc, 1)) :
            task = [NoTask EXCEPT !.content_length = size, !.max_concurrent_part = conc,
                                  !.min_split_part_mb = 1, !.files = fs,
                                  !.dest = d, !.found = d]

\* what a task leaves alone
taskFrame == <<cpc, downloadVars, plannerVars, coreServiceVars, chunking, diskfs, part, multi, syncRetry>>

\* start: split_parts, create_dir_all(part_folder)
TaskSplit ==
    /\ cpc = "task"
    /\ task.pc = "start"
    /\ LET parts == SyncSplitParts(task.content_length, task.max_concurrent_part,
                                   task.min_split_part_mb)
       IN  task' = [task EXCEPT !.parts = parts,
                                !.results = [i \in 1 .. Len(parts) |-> "none"],
                                !.pc = "parts"]
    /\ UNCHANGED taskFrame

\* the closure of par_iter for one part: DownloadPart::new, check_part,
\* get_part
RunPart ==
    /\ cpc = "task"
    /\ task.pc = "parts"
    /\ \E i \in 1 .. Len(task.parts) :
        /\ task.results[i] = "none"
        /\ LET bytes_start == task.parts[i][1]
               bytes_end == task.parts[i][2]
               checked == CheckedStatus(bytes_end, task.files[i])
               body == RangeBody(BytesOffset(checked, bytes_start), bytes_end)
           IN  \/ /\ checked.kind = "Completed"
                  /\ task' = [task EXCEPT !.results[i] = "ok"]
               \/ /\ checked.kind # "Completed"
                  /\ task' = [task EXCEPT !.results[i] = "err"]
               \/ /\ checked.kind # "Completed"
                  /\ \E k \in 0 .. Len(body) :
                      task' = [task EXCEPT
                                  !.files[i] = ExistingFile(SubSeq(body, 1, k)),
                                  !.results[i] = IF k = Len(body) THEN "ok" ELSE "err"]
    /\ UNCHANGED taskFrame

\* start: collect, then `completed_parts.push(task?)` for every result
Gather ==
    /\ cpc = "task"
    /\ task.pc = "parts"
    /\ \A i \in 1 .. Len(task.parts) : task.results[i] # "none"
    /\ task' = [task EXCEPT
                   !.joined = [i \in 1 .. Len(task.files) |-> task.files[i].content],
                   !.pc = IF AllPartsOk(task.results) THEN "concat" ELSE "returned",
                   !.result = IF AllPartsOk(task.results) THEN "none" ELSE "err"]
    /\ UNCHANGED taskFrame

\* concat_file_part: BaseFilePart::new, open_file with create and truncate
BaseFilePartNew ==
    /\ cpc = "task"
    /\ task.pc = "concat"
    /\ \/ task' = [task EXCEPT !.dest = ExistingFile(<<>>), !.opened = TRUE, !.pc = "add"]
       \/ task' = [task EXCEPT !.pc = "returned", !.result = "err"]
    /\ UNCHANGED taskFrame

\* concat_file_part: base_file.add(file_part)? for the next file_part
BaseFilePartAdd ==
    /\ cpc = "task"
    /\ task.pc = "add"
    /\ task.added < Len(task.parts)
    /\ LET next == task.added + 1
       IN  \/ /\ task.files[next].exists
              /\ task' = [task EXCEPT !.dest.content = @ \o task.files[next].content,
                                      !.files[next] = AbsentFile,
                                      !.added = next]
           \/ task' = [task EXCEPT !.pc = "returned", !.result = "err"]
    /\ UNCHANGED taskFrame

\* start: remove_dir_all(part_folder) after concat_file_part returned Ok
RemoveDirAll ==
    /\ cpc = "task"
    /\ task.pc = "add"
    /\ task.added = Len(task.parts)
    /\ \/ task' = [task EXCEPT !.files = [i \in 1 .. Len(task.files) |-> AbsentFile],
                               !.removed = TRUE, !.pc = "returned", !.result = "ok"]
       \/ task' = [task EXCEPT !.pc = "returned", !.result = "err"]
    /\ UNCHANGED taskFrame

NextTask ==
    TaskSplit \/ RunPart \/ Gather \/ BaseFilePartNew \/ BaseFilePartAdd \/ RemoveDirAll

SpecTask == InitTask /\ [][NextTask]_vars

(***************************************************************************)
(* MultiParts::execute: init, handle_broken_file, start_download.  The     *)
(* resource has FileSize bytes when its size is known; the server answers  *)
(* a range request with the bytes of the range or the request fails.  The  *)
(* calls on the filesystem do not fail.                                    *)
(***************************************************************************)
\* download.size().unwrap_or(0)
SizeOrZero(m) == IF m.size_known THEN FileSize ELSE 0

\* what execute may find at path: nothing, or a file of up to FileSize + 1
\* bytes
FoundFiles ==
    {AbsentFile} \cup {ExistingFile([i \in 1 .. n |-> HoleByte]) : n \in 0 .. (FileSize + 1)}

InitMulti ==
    /\ cpc = "multi"
    /\ progress_file = NewProgressFile(0)
    /\ journal_file = AbsentFile
    /\ disk = <<>>
    /\ info = NoInfo
    /\ plan_input = NoPlanInput
    /\ Idle
    /\ CoreServicesIdle
    /\ syncRetry = NoSyncRetry
    /\ chunking = NoChunking
    /\ diskfs = NoDiskfs
    /\ part = NoPart
    /\ task = NoTask
    /\ multi \in {[NoMulti EXCEPT !.size_known = k, !.max_no_frames = n, !.file = f,
                                  !.found = f] :
                     k \in BOOLEAN, n \in 1 .. 2, f \in FoundFiles}

\* what execute leaves alone
multiFrame == <<cpc, downloadVars, plannerVars, coreServiceVars, chunking, diskfs, part, task, syncRetry>>

\* init: get_info, create_file when the path does not exist, file_info
MultiInit ==
    /\ cpc = "multi"
    /\ multi.pc = "init"
    /\ \/ multi' = [multi EXCEPT !.pc = "returned", !.result = "err"]
       \/ multi' = [multi EXCEPT
                       !.file = ExistingFile(multi.file.content),
                       !.file_info_size = Len(multi.file.content),
                       !.pc = "broken"]
    /\ UNCHANGED multiFrame

\* handle_broken_file
HandleBrokenFile ==
    /\ cpc = "multi"
    /\ multi.pc = "broken"
    /\ IF SizeOrZero(multi) # multi.file_info_size
       THEN multi' = [multi EXCEPT !.state = "BrokenFile",
                                   !.file = ExistingFile(<<>>),
                                   !.pc = "start"]
       ELSE multi' = [multi EXCEPT !.pc = "start"]
    /\ UNCHANGED multiFrame

\* start_download up to the collected get_bytes_range results
StartDownload ==
    /\ cpc = "multi"
    /\ multi.pc = "start"
    /\ IF multi.size_known
       THEN LET bytes_range == SplitParts(FileSize, multi.max_no_frames,
                                          multi.min_frame_size_mb, FALSE).parts
            IN  \E kinds \in [1 .. Len(bytes_range) -> {"ok", "send_err"}] :
                    multi' = [multi EXCEPT
                                 !.state = "Started",
                                 !.streams = [i \in 1 .. Len(bytes_range) |->
                                                 [kind |-> kinds[i],
                                                  body |-> Body(kinds[i], bytes_range[i])]],
                                 !.pc = "write"]
       ELSE multi' = [multi EXCEPT !.state = "Started", !.pc = "returned",
                                   !.result = "ok"]
    /\ UNCHANGED multiFrame

\* start_download: `async_func.await?` for the next stream, write_stream
\* appending its chunks
WriteStream ==
    /\ cpc = "multi"
    /\ multi.pc = "write"
    /\ multi.written < Len(multi.streams)
    /\ LET next == multi.streams[multi.written + 1]
       IN  IF next.kind = "ok"
           THEN multi' = [multi EXCEPT !.file.content = @ \o next.body,
                                       !.written = @ + 1]
           ELSE multi' = [multi EXCEPT !.pc = "returned", !.result = "err"]
    /\ UNCHANGED multiFrame

\* execute: Ok(download_info.clone()) after the last stream
ExecuteReturns ==
    /\ cpc = "multi"
    /\ multi.pc = "write"
    /\ multi.written = Len(multi.streams)
    /\ multi' = [multi EXCEPT !.pc = "returned", !.result = "ok"]
    /\ UNCHANGED multiFrame

NextMulti == MultiInit \/ HandleBrokenFile \/ StartDownload \/ WriteStream \/ ExecuteReturns

SpecMulti == InitMulti /\ [][NextMulti]_vars

(***************************************************************************)
(* Sync downloader: retry_request(max_retry_no, function).  Each call of   *)
(* function returns a response or a reqwest error of some kind.            *)
(***************************************************************************)
\* error.is_connect() || error.is_timeout()
RetryableErrors == {"connect", "timeout"}
\* the other errors function may return
FatalErrors == {"status", "decode"}
\* what one call of function may return
CallOutcomes == {"ok"} \cup RetryableErrors \cup FatalErrors

\* the range 1..=max_retry_no of the for loop
InLoopRange(current_retry, max_retry_no) == current_retry <= max_retry_no

InitSyncRetry ==
    /\ cpc = "sync_retry"
    /\ progress_file = NewProgressFile(0)
    /\ journal_file = AbsentFile
    /\ disk = <<>>
    /\ info = NoInfo
    /\ plan_input = NoPlanInput
    /\ Idle
    /\ CoreServicesIdle
    /\ chunking = NoChunking
    /\ diskfs = NoDiskfs
    /\ part = NoPart
    /\ task = NoTask
    /\ multi = NoMulti
    /\ syncRetry \in {[NoSyncRetry EXCEPT !.max_retry_no = n] : n \in 0 .. MaxRetryNo}

\* what retry_request leaves alone
syncRetryFrame ==
    <<cpc, downloadVars, plannerVars, coreServiceVars, chunking, diskfs, part, task, multi>>

\* one turn of the for loop: `match function()`
CallFunction ==
    /\ cpc = "sync_retry"
    /\ syncRetry.pc = "loop"
    /\ InLoopRange(syncRetry.current_retry, syncRetry.max_retry_no)
    /\ \E outcome \in CallOutcomes :
        syncRetry' = [syncRetry EXCEPT
            !.calls = Append(@, outcome),
            !.current_retry = IF outcome \in RetryableErrors THEN @ + 1 ELSE @,
            !.pc = IF outcome \in RetryableErrors THEN "loop" ELSE "returned",
            !.result = IF outcome = "ok" THEN "ok"
                       ELSE IF outcome \in RetryableErrors THEN "none"
                       ELSE "err"]
    /\ UNCHANGED syncRetryFrame

\* after the loop: anyhow::bail!("Spurious network operation timeout.")
Bail ==
    /\ cpc = "sync_retry"
    /\ syncRetry.pc = "loop"
    /\ ~InLoopRange(syncRetry.current_retry, syncRetry.max_retry_no)
    /\ syncRetry' = [syncRetry EXCEPT !.pc = "returned", !.result = "spurious"]
    /\ UNCHANGED syncRetryFrame

NextSyncRetry == CallFunction \/ Bail

SpecSyncRetry == InitSyncRetry /\ [][NextSyncRetry]_vars

(***************************************************************************)
(* Properties                                                              *)
(***************************************************************************)
\* do_multi_part ran to its last statement and download_single returned
Returned == cpc = "done" /\ save_task = "aborted"

\* no ranged request was answered with a non-2xx response
NoErrorStatus == \A p \in Parts : resp[p] # "status"

\* C1 (offset correctness): when a download that started from nothing has
\* returned, every part worker returned Ok and every ranged request was
\* answered with the bytes of its range, the destination holds byte k of the
\* source at every offset k in [0, size).
C1_OffsetCorrectness ==
    (/\ Returned
     /\ ~resuming
     /\ \A p \in Parts : wpc[p] = "ok" /\ resp[p] = "ok")
    => \A k \in 0 .. FileSize - 1 :
           k < Len(disk) /\ disk[k + 1] = SourceByte(k)

\* C2 (journal never ahead of the disk): an interval [lo, hi] that a worker
\* added to the journal has had all its hi-lo+1 bytes written and flushed by
\* that worker.
C2_JournalNeverAhead ==
    \A i \in 1 .. Len(progress_file.completed_chunks) :
        \A p \in Parts :
            (i > Len(completed_chunks) /\ progress_file.completed_chunks[i] = RangeOf(p))
            => part_flushed[p] =
                   [n \in 1 .. (RangeOf(p)[2] - RangeOf(p)[1] + 1) |->
                       SourceByte(RangeOf(p)[1] + n - 1)]

\* C3 (resume skip): once the workers are spawned, a planned range [a, b]
\* has a worker if and only if no single interval [x, y] of the loaded
\* journal has x <= a and b <= y; ranged requests are issued for spawned
\* ranges only, and for every one of them by the time the download returns.
C3_ResumeSkip ==
    LET loaded == IF resuming THEN load_result.value.completed_chunks ELSE <<>>
        spawned == {RangeOf(p) : p \in Parts}
    IN  (cpc \in {"await", "finalize", "finishing", "remove"} \/ Returned)
        => /\ \A i \in 1 .. Len(ranges) :
                  (ranges[i] \in spawned)
                  <=> ~ \E j \in 1 .. Len(loaded) :
                          loaded[j][1] <= ranges[i][1] /\ ranges[i][2] <= loaded[j][2]
           /\ spawned \subseteq {ranges[i] : i \in 1 .. Len(ranges)}
           /\ requested \subseteq spawned
           /\ Returned => requested = spawned

\* C3 witness: a resumed download returned having skipped a covered range
\* and having requested a range that a loaded interval overlaps only partly.
C3_Witness ==
    /\ Returned
    /\ resuming
    /\ \E i \in 1 .. Len(ranges) : ranges[i] \notin requested
    /\ \E i \in 1 .. Len(ranges) :
           /\ ranges[i] \in requested
           /\ \E j \in 1 .. Len(load_result.value.completed_chunks) :
                  LET c == load_result.value.completed_chunks[j]
                  IN  c[1] <= ranges[i][2] /\ ranges[i][1] <= c[2]

\* C4 (final status): when the download has returned and at least one part
\* worker returned Err, the status is not Success.
C4_ErrorStatus ==
    (Returned /\ NoErrorStatus /\ \E p \in Parts : wpc[p] = "err") => status # "Success"

\* C5 (journal preserved): when a download that found a journal file has
\* returned and at least one part worker returned Err, the journal file
\* still exists.
C5_JournalPreserved ==
    (Returned /\ resuming /\ NoErrorStatus /\ \E p \in Parts : wpc[p] = "err")
    => journal_file.exists

\* C6 (clean completion): a download that found no journal file and whose
\* part workers all returned Ok ends with status Success and with no journal
\* file.
C6_CleanCompletion ==
    (Returned /\ ~resuming /\ NoErrorStatus /\ \A p \in Parts : wpc[p] = "ok")
    => status = "Success" /\ ~journal_file.exists

\* C7 (final save): when the coordinator has returned without deleting the
\* journal file, the file exists and holds every interval of the in-memory
\* journal.
C7_FinalSave ==
    (Returned /\ NoErrorStatus /\ status # "Success")
    => \A i \in 1 .. Len(progress_file.completed_chunks) :
           /\ journal_file.exists
           /\ LET saved == LoadProgress(journal_file.content).value.completed_chunks
              IN  \E j \in 1 .. Len(saved) :
                      saved[j] = progress_file.completed_chunks[i]

\* C8 (periodic save while workers run): whenever a part worker is in
\* flight, the periodic save task is active.
C8_PeriodicSaveActive ==
    (\E p \in Parts : wpc[p] \notin {"ok", "err", "killed"})
    => save_task \in {"sleeping", "saving"}

\* C9 (journal coalescing): in a journal that started empty, no two distinct
\* intervals [a,b], [c,d] overlap or touch (c <= b+1 and a <= d+1).
C9_Coalesced ==
    LET cc == progress_file.completed_chunks
    IN  (~resuming /\ NoErrorStatus) =>
            \A i, j \in 1 .. Len(cc) :
                cc[i] # cc[j] => ~(cc[j][1] <= cc[i][2] + 1 /\ cc[i][1] <= cc[j][2] + 1)

\* C10 (journal round trip): whatever the writer held before, save_progress
\* followed by load_progress succeeds and yields the saved intervals.
C10_RoundTrip ==
    cpc = "rt_done"
    => /\ load_result.ok
       /\ load_result.value.completed_chunks = progress_file.completed_chunks

\* C11 (planner covers exactly): a call of split_parts with total >= 1 and
\* max_parts >= 1 returns, and the ranges it returns are non-empty, start at
\* 0, end at total - 1, follow each other without gap or overlap, and are at
\* most max_parts.
C11_PlannerCovers ==
    LET total == plan_input.file_size_bytes
        max_parts == plan_input.max_concurrent_part
        parts == plan_output.parts
    IN  (cpc = "split_done" /\ total >= 1 /\ max_parts >= 1)
        => /\ ~plan_output.panic
           /\ Len(parts) >= 1
           /\ Len(parts) <= max_parts
           /\ parts[1][1] = 0
           /\ parts[Len(parts)][2] = total - 1
           /\ \A i \in 1 .. Len(parts) : parts[i][1] <= parts[i][2]
           /\ \A i \in 1 .. (Len(parts) - 1) : parts[i + 1][1] = parts[i][2] + 1

\* C12 (planner definition): in a build without overflow checks, a call of
\* split_parts returns no range for total = 0, the single range
\* [0, total - 1] when total <= min_part_bytes, min_part_bytes = 0 or
\* max_parts = 0, and otherwise n = min(max(total / min_part_bytes, 1),
\* max_parts) ranges of which the first total mod n have length
\* floor(total / n) + 1 and the others floor(total / n), where min_part_bytes
\* is min_mb times the bytes of one MiB.
C12_PlannerDefinition ==
    LET total == plan_input.file_size_bytes
        max_parts == plan_input.max_concurrent_part
        min_part_bytes == plan_input.min_split_part_mb * MbBytes
        parts == plan_output.parts
    IN  (cpc = "split_done" /\ ~plan_input.overflow_checks)
        => /\ ~plan_output.panic
           /\ IF total = 0 THEN parts = <<>>
              ELSE IF total <= min_part_bytes \/ min_part_bytes = 0 \/ max_parts = 0
              THEN parts = <<<<0, total - 1>>>>
              ELSE LET ideal == total \div min_part_bytes
                       n == Min(IF ideal > 1 THEN ideal ELSE 1, max_parts)
                   IN  /\ Len(parts) = n
                       /\ \A i \in 1 .. Len(parts) :
                              parts[i][2] - parts[i][1] + 1 =
                                  (total \div n) + (IF i <= total % n THEN 1 ELSE 0)

\* the intervals the workers of this run added to the journal
Added ==
    {progress_file.completed_chunks[i] :
        i \in (Len(completed_chunks) + 1) .. Len(progress_file.completed_chunks)}

\* the stream of worker p was forwarded to its end without an error
StreamCompleted(p) ==
    resp[p] # "send_err" /\ bytes_written[p] = Len(Body(resp[p], RangeOf(p)))

\* the tasks that hold a lock of the tracker
TrackerHolders == tracker_lock.part_progress \cup tracker_lock.completed_parts

\* number of bytes the first n part workers have written to the destination
RECURSIVE FlushedBy(_)
FlushedBy(n) ==
    IF n = 0 THEN 0 ELSE FlushedBy(n - 1) + Len(part_flushed[n - 1])

\* number of bytes written to the destination so far
BytesOnDisk == FlushedBy(Len(ranges_to_download)) + Len(single.flushed)

\* C13 (size-unknown path): when download_single has returned for a head
\* probe without Content-Length and without a journal file at start, no
\* ranged request was issued, the full-stream fetch was performed exactly
\* once, the destination holds the chunks in arrival order, there is no
\* journal file, and the status is Success exactly if the stream completed
\* without error.
C13_SizeUnknown ==
    (cpc = "done" /\ ~info.size /\ ~resuming)
    => /\ requested = {}
       /\ single.fetches = 1
       /\ disk = single.flushed
       /\ ~journal_file.exists
       /\ status = "Success"
            <=> (/\ single.resp # "send_err"
                 /\ single.bytes_written = Len(Body(single.resp, single.range)))

\* C14 (non-2xx surfaces): a part worker whose ranged request got a non-2xx
\* final response returns Err, and its range is not added to the journal.
C14_NonSuccessSurfaces ==
    \A p \in Parts :
        (resp[p] = "status" /\ wpc[p] \in {"ok", "err"})
        => wpc[p] = "err" /\ RangeOf(p) \notin Added

\* C15 (error isolation): a worker returns Err only for an error of its own
\* stream and then its range is not added to the journal; a worker returns
\* Ok only for a stream that completed and then its range is added; when
\* the download has returned, every worker has run to its own end, those
\* with a completed stream to Ok.
C15_ErrorIsolated ==
    \A p \in Parts :
        /\ wpc[p] = "err" => ~StreamCompleted(p) /\ RangeOf(p) \notin Added
        /\ wpc[p] = "ok" => StreamCompleted(p) /\ RangeOf(p) \in Added
        /\ Returned => /\ wpc[p] \in {"ok", "err"}
                       /\ StreamCompleted(p) => wpc[p] = "ok"

\* C15 witness: the download returned, one worker failed after it had
\* written a chunk, and a peer returned Ok with its range in the journal.
C15_Witness ==
    /\ Returned
    /\ \E p, q \in Parts :
           /\ wpc[p] = "err" /\ Len(part_flushed[p]) > 0
           /\ wpc[q] = "ok" /\ RangeOf(q) \in Added

\* C16 (bounded concurrency): the number of part workers spawned and not
\* yet finished is at most max_parts.
C16_BoundedConcurrency ==
    Cardinality({p \in Parts : wpc[p] \notin {"ok", "err", "killed"}}) <= MaxParts

\* C17 (writer-lock discipline): a task that holds the writer lock is at the
\* seek + write + flush of the one chunk it holds; it is not waiting for a
\* chunk, awaiting the completion handle, or updating the tracker or the
\* journal; and at most one task holds the lock.
C17_WriterLock ==
    /\ Cardinality(writer_lock) <= 1
    /\ \A p \in Parts : p \in writer_lock => wpc[p] = "write" /\ chunk_var[p] # <<>>
    /\ Coordinator \in writer_lock => cpc = "single_write"
    /\ SaveTask \notin writer_lock

\* C17 witness: a worker holds the writer lock while a peer waits for it.
C17_Witness ==
    \E p, q \in Parts : p # q /\ p \in writer_lock /\ wpc[q] = "lock"

\* C18 (lock non-nesting): no task holds the journal lock together with a
\* tracker lock, and no task holds the writer lock together with either.
C18_LockNonNesting ==
    /\ journal_lock \cap TrackerHolders = {}
    /\ writer_lock \cap (journal_lock \cup TrackerHolders) = {}

\* C18 witness: the journal lock and a tracker lock are held at the same
\* time, by two different workers.
C18_Witness ==
    \E p, q \in Parts : p # q /\ p \in journal_lock /\ q \in TrackerHolders

\* C19 (preallocation): when the size is known, once a part worker has
\* written, the length of the destination is the total size.
C19_Preallocated ==
    (info.size /\ NoErrorStatus /\ \E p \in Parts : Len(part_flushed[p]) > 0)
    => Len(disk) = FileSize

\* C20 (progress never over-reports): while part workers feed the tracker,
\* the position it reports is at most the number of bytes written to the
\* destination so far.
C20_NeverOverReports ==
    (Parts # {} /\ NoErrorStatus) => tracker.position <= BytesOnDisk

\* C21 (progress monotonicity): no step of the download makes the
\* downloaded_bytes that total_progress would return smaller, so that a
\* later read is never below an earlier one.
C21_Monotone == [][DownloadedBytes' >= DownloadedBytes]_vars

\* C22 (cancellation): when SIGINT has ended a download that found no
\* journal file and in which a part had completed, the journal file exists,
\* loads, and holds exactly the ranges of the parts that had completed
\* before the signal.
C22_CancelSaves ==
    (/\ cpc = "exited"
     /\ ~resuming
     /\ NoErrorStatus
     /\ \E p \in Parts : wpc[p] = "ok")
    => /\ journal_file.exists
       /\ LET r == LoadProgress(journal_file.content)
              saved == r.value.completed_chunks
          IN  /\ r.ok
              /\ {saved[i] : i \in 1 .. Len(saved)} =
                     {RangeOf(p) : p \in {q \in Parts : wpc[q] = "ok"}}

\* C23: a request that meets k transient failures and then a success, with
\* k <= max_no_retries, returns the successful response, and is attempted at
\* most max_no_retries + 1 times
C23_RetryBudget ==
    (cpc = "sent" /\ Len(retry.script) <= retry.max_no_retries)
    => /\ retry.result = "ok"
       /\ retry.attempts <= retry.max_no_retries + 1

\* C24 (name precedence): the destination name is the Content-Disposition
\* name if there is one; else the decoded last segment if it is non-empty
\* and has an extension; else, if the sniff gave an extension, the segment
\* with it when the segment is non-empty and a random name with it
\* otherwise; else "download".  The sniff is made only when the first two
\* steps gave nothing.
C24_NamePrecedence ==
    cpc = "name_done" =>
        LET cd == ParseContentDisposition(naming.header)
            seg == PercentDecode(naming.segment)
            step2 == seg # <<>> /\ HasExtension(seg)
        IN  /\ cd.some => naming.filename = cd.name
            /\ (~cd.some /\ step2) => naming.filename = seg
            /\ (cd.some \/ step2) <=> naming.sniff = "none"
            /\ (naming.sniff = "ext" /\ seg # <<>>) =>
                   naming.filename = seg \o <<".", "zip">>
            /\ (naming.sniff = "ext" /\ seg = <<>>) =>
                   \E r \in RandomTokens : naming.filename = <<r, ".", "zip">>
            /\ naming.sniff \in {"no_ext", "range_err"} =>
                   naming.filename = <<"download">>

\* the sniffed extension was appended to a segment that had none
C24_Witness ==
    /\ cpc = "name_done"
    /\ naming.sniff = "ext"
    /\ naming.segment # <<>>
    /\ naming.filename = PercentDecode(naming.segment) \o <<".", "zip">>

\* C25 (safe names): whichever branch supplied it, the destination name is
\* non-empty and contains no path separator.
C25_SafeName ==
    cpc = "name_done" =>
        /\ naming.filename # <<>>
        /\ \A i \in 1 .. Len(naming.filename) : naming.filename[i] # "/"

\* C26 (bulk runner): when the runner has returned, a task has been run to
\* its end for every input URL, whatever the state of the other URLs'
\* destinations.
C26_OneTaskPerUrl ==
    (cpc = "tasks_done" /\ \A i \in 1 .. Len(bulk.urls) : bulk.urls[i].probe = "ok")
    => \A i \in 1 .. Len(bulk.urls) :
           ~bulk.urls[i].exists => bulk.thread[i] \in {"ok", "err"}

\* C27 (completion handle liveness): once the consumer has drained the
\* stream to its end, has been given its error item, or has dropped it, the
\* producer's read loop ends and the completion handle resolves.
C27_HandleLiveness ==
    (stream.consumer \in {"ended", "error_seen", "dropped"})
        ~> (stream.producer = "resolved")

\* the consumer dropped the stream while body was still to come, and the
\* handle has resolved
C27_Witness ==
    /\ stream.consumer = "dropped"
    /\ stream.body > 0
    /\ stream.producer = "resolved"

\* C28 (cleanup on every path): whenever handle() has returned after it
\* built the writer and receive_data gave it a stream, close_fs() was called
\* on the writer before.
C28_AlwaysClosed ==
    (cpc = "returned" /\ local.stream_result = "ok") => local.closed

\* C29 (filesystem failures are reported): if writing a chunk to the file
\* failed, handle() returns an error.
C29_WriteErrorSurfaces ==
    (cpc = "returned" /\ local.write_failed) => local.result = "err"

\* C30 (success on any finite body): for an origin that answers, with a
\* finite non-empty body, a size probe that succeeds, a disk that takes
\* every write and a destination that did not exist, handle() is never
\* stuck before it returns, and it returns Ok with the file holding the
\* body's chunks in arrival order.
C30_FiniteBodySucceeds ==
    (/\ local.response = "ok"
     /\ local.ending = "eof"
     /\ local.chunks > 0
     /\ local.probe = "ok"
     /\ ~local.disk_fails
     /\ local.prior = <<>>)
    => /\ cpc # "returned" => ENABLED NextLocal
       /\ cpc = "returned" =>
              /\ local.result = "ok"
              /\ local.file = [k \in 1 .. local.chunks |-> k]

\* C31 (Success implies the body was fetched): when download_single has
\* answered Success for a download that found no journal file, a ranged or
\* a full-stream request for the body was issued before, whichever headers
\* the head probe found.
C31_SuccessAfterRequest ==
    (cpc = "done" /\ status = "Success" /\ ~resuming)
    => (requested # {} \/ single.fetches > 0)

\* C32 (name sniffing terminates): until get_or_parse has returned, the
\* producer or get_or_parse itself can take a step, whatever the origin
\* sends for the sniff request.
C32_SniffTerminates ==
    cpc # "sniff_returned" => ENABLED NextSniff

\* an ordered partition of [0, file_size - 1] into contiguous ranges of
\* part_size bytes, the last of 1 .. part_size bytes
FixedPartition(rs, file_size, part_size) ==
    /\ (rs = <<>>) <=> (file_size = 0)
    /\ rs # <<>> => /\ rs[1][1] = 0
                    /\ rs[Len(rs)][2] = file_size - 1
    /\ \A i \in 1 .. Len(rs) :
        /\ i < Len(rs) => /\ rs[i][2] - rs[i][1] + 1 = part_size
                          /\ rs[i + 1][1] = rs[i][2] + 1
        /\ rs[i][2] - rs[i][1] + 1 \in 1 .. part_size

\* C33 (fixed-size chunking): for every file_size and every part_size >= 1
\* the loop of do_multi_part and generate_chunk return the same list, and
\* that list is the ordered partition of [0, file_size - 1] into ranges of
\* part_size bytes with a shorter or equal last range.
C33_SameChunking ==
    (chunking.inline.outcome # "none" /\ chunking.generated.outcome # "none")
    => /\ chunking.inline.outcome = "return"
       /\ chunking.generated.outcome = "return"
       /\ chunking.inline.ranges = chunking.generated.ranges
       /\ FixedPartition(chunking.inline.ranges, chunking.file_size, chunking.part_size)

\* C34 (positional writes through the handle cache): after write_at(path,
\* pos, buf) returned Ok the file holds buf at offsets pos .. pos+len-1 and
\* every other byte it held before is unchanged, whichever call opened the
\* cached handle.
C34_WriteAtPlacesBuf ==
    (diskfs.call.op = "write_at" /\ diskfs.call.result = "ok")
    => LET call == diskfs.call
           after == diskfs.files[call.path].content
       IN  /\ Len(after) >= call.pos + Len(call.buf)
           /\ Len(after) >= Len(call.before)
           /\ \A i \in 1 .. Len(after) :
               IF i > call.pos /\ i <= call.pos + Len(call.buf)
               THEN after[i] = call.buf[i - call.pos]
               ELSE i <= Len(call.before) => after[i] = call.before[i]

\* C35 (part status classification): after check_part the status is
\* Completed iff the part file holds end - start + 1 bytes, Broken(n) iff it
\* holds n bytes with 0 < n < end - start + 1, Starting iff it is missing or
\* empty.
C35_CheckPartClassifies ==
    part.pc = "checked"
    => LET full == part.bytes_end - part.bytes_start + 1
           n == Len(part.found.content)
       IN  /\ part.status.kind = "Completed" <=> (part.found.exists /\ n = full)
           /\ part.status.kind = "Broken" <=> (0 < n /\ n < full)
           /\ part.status.kind = "Broken" => part.status.bytes = n
           /\ part.status.kind = "Starting" <=> (~part.found.exists \/ n = 0)

\* C36 (part resume): after get_part returned Ok for a part found Broken(n)
\* the part file holds the source bytes start .. end in order.
C36_ResumedPartIsWhole ==
    (part.pc = "returned" /\ part.result = "ok" /\ part.entry.kind = "Broken")
    => part.file = ExistingFile(SourceBytes(part.bytes_start, part.bytes_end))

C38_ExecuteLeavesSize ==
    (multi.pc = "returned" /\ multi.result = "ok" /\ multi.size_known)
    => Len(multi.file.content) = FileSize

\* the calls of function before the last one all failed with a retryable
\* error
EarlierCallsRetryable(calls) ==
    \A i \in 1 .. (Len(calls) - 1) : calls[i] \in RetryableErrors

\* C39 (retry_request): only connection and timeout errors are retried;
\* the first Ok response and the first other error are returned at once;
\* the request is retried up to max_retry_no times, and the "Spurious
\* network operation timeout." error is returned exactly when the first
\* call and all max_retry_no retries failed with retryable errors.
C39_RetryRequest ==
    syncRetry.pc = "returned"
    => LET calls == syncRetry.calls
           retries == Len(calls) - 1
       IN  /\ EarlierCallsRetryable(calls)
           /\ retries <= syncRetry.max_retry_no
           /\ syncRetry.result = "ok" => calls[Len(calls)] = "ok"
           /\ syncRetry.result = "err" => calls[Len(calls)] \in FatalErrors
           /\ syncRetry.result = "spurious"
              <=> /\ retries = syncRetry.max_retry_no
                  /\ \A i \in 1 .. Len(calls) : calls[i] \in RetryableErrors

====
